---- MODULE Spec2Model ----
(***************************************************************************)
(* Storage subsystem of the TF upload service.                             *)
(*                                                                         *)
(* The repository holds several variants of server.js.  The model follows  *)
(* the multi-pool chunk variant (src/unnamed/part_001): token allocation,  *)
(* chunk writes across an ordered list of Postgres pools, the metadata     *)
(* upsert, the pending directory with its retry loop, and the range-aware  *)
(* GET handler.  Rows with a file_data blob are those the single-blob      *)
(* variant (src/server.js, saveFileToDB) leaves in the same uploads table. *)
(* The streaming upload of the Busboy variant (src/server.js, lines 905 to *)
(* 1091) is followed event by event on the tables of the first pool.       *)
(*                                                                         *)
(* A byte buffer is a sequence of numbers; buffer.slice(a, b) is           *)
(* Slice(buf, a, b).  Sizes are scaled down: CHUNK_MAX_SIZE and            *)
(* MAX_FILE_SIZE are a few bytes.  A backend failure (connection or query  *)
(* error) is an input of each call: the set `fail` of pools that throw.    *)
(***************************************************************************)
EXTENDS Integers, Sequences, FiniteSets, TLC

\* ------------------------------------------------------------------ bounds

NumBackends == 2        \* number of DATABASE_URL* pools
TokIds == 2             \* distinct random draws of genToken per length
MaxUploads == 2         \* POST /upload requests per behaviour
CHUNK_MAX_SIZE == 2     \* part_001:18 (8 MiB), scaled down
MAX_FILE_SIZE == 5      \* part_001:19 (5 GiB), scaled down
MaxPage == 2            \* largest limit and offset of GET /uploads
MaxTime == 4            \* last value of the clock behind NOW() / Date.now()

Backends == 1..NumBackends
Empty == 0 - 1          \* an empty capture group of the Range regex
NoFile == <<0 - 1>>     \* file_data IS NULL (no buffer holds a negative byte)

Min(a, b) == IF a < b THEN a ELSE b

\* buffer.slice(a, b): bytes a .. b-1, clamped to the buffer
Slice(buf, a, b) == SubSeq(buf, a + 1, Min(b, Len(buf)))

\* The bytes of the k-th object submitted, n bytes long: every byte of every
\* object is distinct, so a wrong slice or a mixed-up object shows.
Payload(n, k) == [i \in 1..n |-> 10 * k + i]

\* ------------------------------------------------------------------ tokens

\* genToken(len): len random characters; the model keeps the length and
\* which of TokIds strings was drawn.
GenToken(len) == {[len |-> len, id |-> i] : i \in 1..TokIds}

LegacyToken == [len |-> 8, id |-> 1]
Tokens == GenToken(10) \cup {LegacyToken}

\* ------------------------------------------------------------------- state

VARIABLES
  uploads,      \* uploads[b]: rows of table uploads in pool b
  fileChunks,   \* fileChunks[b]: rows of table file_chunks in pool b
  pendingBin,   \* PENDING_DIR: the pending-<token>-<ts>.bin files
  pendingJson,  \* PENDING_DIR: the pending-<token>-<ts>.bin.json descriptors
  mappings,     \* in-memory metadata cache: token -> entry
  now,          \* clock read by NOW() and Date.now()
  nUploads,     \* POST /upload requests handled so far
  issued,       \* every (token, payload) a POST /upload answered with success
  loops,        \* loops[c]: one chain of pendingRetryLoop calls
  last,         \* what the last handler or step did: its request and its outcome
  stream,       \* the streaming upload in progress (server.js, Busboy variant)
  reading       \* the GET that found a pending file and has not opened it yet

vars == <<uploads, fileChunks, pendingBin, pendingJson, mappings, now,
          nUploads, issued, loops, last, stream, reading>>


\* ------------------------------------------------- chunk table (part_001)

Failed == {[failed |-> TRUE]}

\* The write without the loop: the whole buffer as the one chunk 0.
InsertWhole(rows, token, buffer, offset, seq) ==
  IF Len(buffer) = 0 THEN rows
  ELSE IF \E r \in rows : r.token = token /\ r.seq = seq
       THEN Failed
       ELSE rows \cup {[token |-> token, seq |-> seq, chunk |-> buffer]}

\* The loop with an INSERT that replaces the row of a key that is taken.
RECURSIVE InsertChunksOverwriting(_, _, _, _, _)
InsertChunksOverwriting(rows, token, buffer, offset, seq) ==
  IF offset < Len(buffer)
  THEN LET piece == Slice(buffer, offset, Min(offset + CHUNK_MAX_SIZE, Len(buffer)))
       IN InsertChunksOverwriting(
            {r \in rows : ~(r.token = token /\ r.seq = seq)}
              \cup {[token |-> token, seq |-> seq, chunk |-> piece]},
            token, buffer, offset + CHUNK_MAX_SIZE, seq + 1)
  ELSE rows

\* for (offset = 0; offset < buffer.length; offset += CHUNK_MAX_SIZE)
\*   INSERT INTO file_chunks (token, seq, chunk); seq++
\* inside one transaction: a duplicate (token, seq) key aborts it.
RECURSIVE InsertChunks(_, _, _, _, _)
InsertChunks(rows, token, buffer, offset, seq) ==
  IF offset < Len(buffer)
  THEN LET piece == Slice(buffer, offset, Min(offset + CHUNK_MAX_SIZE, Len(buffer)))
       IN IF \E r \in rows : r.token = token /\ r.seq = seq
          THEN Failed
          ELSE InsertChunks(rows \cup {[token |-> token, seq |-> seq, chunk |-> piece]},
                            token, buffer, offset + CHUNK_MAX_SIZE, seq + 1)
  ELSE rows

\* The write that gives up at the first pool that fails.
SaveChunksNoFailover(b, ch, token, buffer, fail) ==
  LET rows == InsertChunks(ch[b], token, buffer, 0, 0)
  IN IF b \in fail \/ rows = Failed
     THEN [ok |-> FALSE, pool |-> 0, chunks |-> ch]
     ELSE [ok |-> TRUE, pool |-> b, chunks |-> [ch EXCEPT ![b] = rows]]

\* for (const pinfo of poolInfos) { try connect, BEGIN, inserts, COMMIT,
\* return pinfo.name } catch { ROLLBACK; continue } ; throw lastErr
RECURSIVE SaveChunksFrom(_, _, _, _, _)
SaveChunksFrom(b, ch, token, buffer, fail) ==
  IF b > NumBackends
  THEN [ok |-> FALSE, pool |-> 0, chunks |-> ch]
  ELSE IF b \in fail
       THEN SaveChunksFrom(b + 1, ch, token, buffer, fail)
       ELSE LET rows == InsertChunks(ch[b], token, buffer, 0, 0)
            IN IF rows = Failed
               THEN SaveChunksFrom(b + 1, ch, token, buffer, fail)
               ELSE [ok |-> TRUE, pool |-> b, chunks |-> [ch EXCEPT ![b] = rows]]

\* The write that begins with the last pool of the list.
saveChunksLastPoolFirst(ch, token, buffer, fail) ==
  SaveChunksFrom(NumBackends, ch, token, buffer, fail)

saveChunksToDBAcrossPools(ch, token, buffer, fail) ==
  SaveChunksFrom(1, ch, token, buffer, fail)

\* ------------------------------------------------ uploads table (part_001)

\* The insert without its ON CONFLICT clause on a table without the key: a
\* second row of the token is added.
InsertRow(rows, token, entry, t) ==
  rows \cup {[token |-> token, data |-> entry, file |-> NoFile, created_at |-> t]}

\* INSERT INTO uploads (token, data, created_at) VALUES ($1, $2, NOW())
\* ON CONFLICT (token) DO UPDATE SET data = $2, created_at = NOW()
UpsertRow(rows, token, entry, t) ==
  LET old == {r \in rows : r.token = token}
      file == IF old = {} THEN NoFile ELSE (CHOOSE r \in old : TRUE).file
  IN (rows \ old) \cup {[token |-> token, data |-> entry, file |-> file, created_at |-> t]}

RECURSIVE SaveMetaFrom(_, _, _, _, _, _)
SaveMetaFrom(b, up, token, entry, fail, t) ==
  IF b > NumBackends
  THEN [ok |-> FALSE, pool |-> 0, uploads |-> up]
  ELSE IF b \in fail
       THEN SaveMetaFrom(b + 1, up, token, entry, fail, t)
       ELSE [ok |-> TRUE, pool |-> b,
             uploads |-> [up EXCEPT ![b] = UpsertRow(up[b], token, entry, t)]]

saveMappingMetadataToDBAcrossPools(up, token, entry, fail, t) ==
  SaveMetaFrom(1, up, token, entry, fail, t)

\* ----------------------------------------------- pending directory (part_001)

\* fn = `pending-${token}-${Date.now()}.bin`; writeFileSync replaces a file
\* of the same name.
PendingName(token, t) == [token |-> token, ts |-> t]

WriteBin(files, fn, buffer) ==
  {f \in files : f.fn # fn} \cup {[fn |-> fn, buf |-> buffer]}

WriteJson(files, fn, token, entry, t) ==
  {f \in files : f.fn # fn} \cup {[fn |-> fn, token |-> token, entry |-> entry, timestamp |-> t]}

\* --------------------------------------------------- POST /upload (part_001)

Db == [tag |-> "db", pool |-> 0]
PendingDisk == [tag |-> "pending_disk", pool |-> 0]
StoredOn(b) == [tag |-> "pool", pool |-> b]
NoToken == [len |-> 0, id |-> 0]

\* mappings[token] = entry
Put(map, token, entry) ==
  [x \in DOMAIN map \cup {token} |-> IF x = token THEN entry ELSE map[x]]

NoEvent == [kind |-> "none"]

\* What a pool answers to the INSERT of a chunk: it runs it ("none"), or it
\* throws, because it cannot be reached or because the row is larger than
\* it takes. The handler catches both in the same catch.
Errors == [Backends -> {"none", "unavailable", "too_large"}]
Rejecting(errors) == {b \in Backends : errors[b] # "none"}
ErrorsOf(fail) == [b \in Backends |-> IF b \in fail THEN "unavailable" ELSE "none"]

\* The handler, whole: token = genToken(10); chunks across the pools, then
\* the metadata (its failure is only logged), then the cache and the 200; when
\* every pool failed, the pending pair, the cache and the 200 with a note.
UploadOn(token, n, errors, failM) ==
  /\ nUploads < MaxUploads
  /\ n <= MAX_FILE_SIZE
  /\ LET failC == Rejecting(errors)
         buf == Payload(n, nUploads + 1)
         entry == [token |-> token, name |-> nUploads + 1, size |-> n,
                   createdAt |-> now, storage |-> Db]
         c == saveChunksToDBAcrossPools(fileChunks, token, buf, failC)
         m == saveMappingMetadataToDBAcrossPools(uploads, token, entry, failM, now)
         fn == PendingName(token, now)
     IN /\ issued' = issued \cup {[token |-> token, buf |-> buf]}
        /\ IF c.ok
           THEN /\ fileChunks' = c.chunks
                /\ uploads' = m.uploads
                /\ mappings' = Put(mappings, token, [entry EXCEPT !.storage = StoredOn(c.pool)])
                /\ last' = [kind |-> "upload", status |-> 200, token |-> token,
                            size |-> n, note |-> "", buf |-> buf, pool |-> c.pool,
                            wrote |-> c.chunks[c.pool] \ fileChunks[c.pool],
                            inCache |-> token \in DOMAIN mappings,
                            fail |-> failC, metaFail |-> failM, metaPool |-> m.pool,
                            errors |-> errors]
                /\ UNCHANGED <<pendingBin, pendingJson>>
           ELSE /\ pendingBin' = WriteBin(pendingBin, fn, buf)
                /\ pendingJson' = WriteJson(pendingJson, fn, token, entry, now)
                /\ mappings' = Put(mappings, token, [entry EXCEPT !.storage = PendingDisk])
                /\ last' = [kind |-> "upload", status |-> 200, token |-> token,
                            size |-> n, note |-> "saved-locally-pending-db",
                            buf |-> buf, pool |-> 0, wrote |-> {},
                            inCache |-> token \in DOMAIN mappings,
                            fail |-> failC, metaFail |-> failM, metaPool |-> 0,
                            errors |-> errors]
                /\ UNCHANGED <<fileChunks, uploads>>
  /\ now' = now + 1
  /\ nUploads' = nUploads + 1
  /\ UNCHANGED <<loops, stream, reading>>

\* The handler when the pools that fail are unreachable.
Upload(token, n, failC, failM) == UploadOn(token, n, ErrorsOf(failC), failM)

\* multer: a file longer than limits.fileSize ends the request with
\* LIMIT_FILE_SIZE before the handler runs; the error handler answers 413.
UploadTooLarge(n) ==
  /\ nUploads < MaxUploads
  /\ n > MAX_FILE_SIZE
  /\ last' = [kind |-> "upload", status |-> 413, token |-> NoToken, size |-> n,
              note |-> "", buf |-> <<>>, pool |-> 0, wrote |-> {}, inCache |-> FALSE,
              fail |-> {}, metaFail |-> {}, metaPool |-> 0, errors |-> ErrorsOf({})]
  /\ nUploads' = nUploads + 1
  /\ UNCHANGED <<uploads, fileChunks, pendingBin, pendingJson, mappings, now,
                 issued, loops, stream, reading>>

\* if (!req.file) return res.status(400)
UploadNoFile ==
  /\ nUploads < MaxUploads
  /\ last' = [kind |-> "upload", status |-> 400, token |-> NoToken, size |-> 0,
              note |-> "", buf |-> <<>>, pool |-> 0, wrote |-> {}, inCache |-> FALSE,
              fail |-> {}, metaFail |-> {}, metaPool |-> 0, errors |-> ErrorsOf({})]
  /\ nUploads' = nUploads + 1
  /\ UNCHANGED <<uploads, fileChunks, pendingBin, pendingJson, mappings, now,
                 issued, loops, stream, reading>>

\* ------------------------------------------------- Range header (part_001)

\* A request's Range header after /bytes=(\d*)-(\d*)/ and parseInt: the two
\* captures, Empty for '' ; present = FALSE when there is no header or the
\* regex does not match.
NoHeader == [present |-> FALSE, start |-> Empty, end |-> Empty]
Headers ==
  {NoHeader} \cup
  [present : {TRUE}, start : {Empty} \cup 0..MAX_FILE_SIZE, end : {Empty} \cup 0..MAX_FILE_SIZE]

NoRange == [start |-> Empty, end |-> Empty]     \* parseRange returns null

parseRange(rangeHeader, size) ==
  IF ~rangeHeader.present THEN NoRange
  ELSE LET start == rangeHeader.start
           end == rangeHeader.end
       IN IF start = Empty /\ end = Empty THEN NoRange
          ELSE LET s == IF start # Empty THEN start ELSE size - (end + 1)
                   e == IF end # Empty THEN end ELSE size - 1
               IN IF s > e \/ s < 0 THEN NoRange ELSE [start |-> s, end |-> e]

\* ------------------------------------------------ GET /TF-:token (part_001)

NotFound == [status |-> 404, body |-> <<>>, total |-> Empty, start |-> Empty,
             end |-> Empty, length |-> Empty]

\* res.status(416).set('Content-Range', `bytes */${total}`).end()
Unsatisfiable(total) ==
  [status |-> 416, body |-> <<>>, total |-> total, start |-> Empty, end |-> Empty,
   length |-> Empty]

Partial(body, start, end, total, length) ==
  [status |-> 206, body |-> body, total |-> total, start |-> start, end |-> end,
   length |-> length]

Full(body, length) ==
  [status |-> 200, body |-> body, total |-> length, start |-> Empty, end |-> Empty,
   length |-> length]

\* fetchFileDataFromPools: the first pool, in order, whose row has file_data
RECURSIVE FetchFileFrom(_, _, _)
FetchFileFrom(b, token, fail) ==
  IF b > NumBackends THEN [found |-> FALSE, buf |-> <<>>, pool |-> 0]
  ELSE LET rows == {r \in uploads[b] : r.token = token /\ r.file # NoFile}
       IN IF b \notin fail /\ rows # {}
          THEN [found |-> TRUE, buf |-> (CHOOSE r \in rows : TRUE).file, pool |-> b]
          ELSE FetchFileFrom(b + 1, token, fail)

fetchFileDataFromPools(token, fail) == FetchFileFrom(1, token, fail)

\* SELECT seq, chunk ... ORDER BY seq ASC
RECURSIVE OrderBySeq(_)
OrderBySeq(rows) ==
  IF rows = {} THEN <<>>
  ELSE LET first == CHOOSE r \in rows : \A q \in rows : r.seq <= q.seq
       IN <<first.chunk>> \o OrderBySeq(rows \ {first})

\* fetchAllChunksAcrossPools: the first pool, in order, with rows of the token
RECURSIVE FetchChunksFrom(_, _, _)
FetchChunksFrom(b, token, fail) ==
  IF b > NumBackends THEN [rows |-> <<>>, pool |-> 0]
  ELSE LET rows == {r \in fileChunks[b] : r.token = token}
       IN IF b \notin fail /\ rows # {}
          THEN [rows |-> OrderBySeq(rows), pool |-> b]
          ELSE FetchChunksFrom(b + 1, token, fail)

fetchAllChunksAcrossPools(token, fail) == FetchChunksFrom(1, token, fail)

\* for (const b of chunks) res.write(b)
RECURSIVE WriteAll(_, _)
WriteAll(chunks, i) ==
  IF i > Len(chunks) THEN <<>> ELSE chunks[i] \o WriteAll(chunks, i + 1)

\* chunkLens.reduce((a, b) => a + b, 0)
RECURSIVE SumLens(_, _)
SumLens(chunks, i) ==
  IF i > Len(chunks) THEN 0 ELSE Len(chunks[i]) + SumLens(chunks, i + 1)

\* The slicing loop without `remainingStart = 0` after the first chunk
\* served: the offset of the range is applied again in every chunk.
RECURSIVE SliceChunksKeepOffset(_, _, _, _)
SliceChunksKeepOffset(chunks, i, remainingStart, remainingToSend) ==
  IF i <= Len(chunks) /\ remainingToSend > 0
  THEN LET cl == Len(chunks[i])
       IN IF remainingStart >= cl
          THEN SliceChunksKeepOffset(chunks, i + 1, remainingStart - cl, remainingToSend)
          ELSE LET sliceStart == remainingStart
                   sliceEnd == Min(cl - 1, sliceStart + remainingToSend - 1)
               IN Slice(chunks[i], sliceStart, sliceEnd + 1)
                  \o SliceChunksKeepOffset(chunks, i + 1, remainingStart,
                                           remainingToSend - (sliceEnd - sliceStart + 1))
  ELSE <<>>

\* for (i = 0; i < chunks.length && remainingToSend > 0; i++): skip the
\* chunks before start, then write a slice of each chunk until sendLen bytes
\* are out.  i counts from 1 here.
RECURSIVE SliceChunks(_, _, _, _)
SliceChunks(chunks, i, remainingStart, remainingToSend) ==
  IF i <= Len(chunks) /\ remainingToSend > 0
  THEN LET cl == Len(chunks[i])
       IN IF remainingStart >= cl
          THEN SliceChunks(chunks, i + 1, remainingStart - cl, remainingToSend)
          ELSE LET sliceStart == remainingStart
                   sliceEnd == Min(cl - 1, sliceStart + remainingToSend - 1)
               IN Slice(chunks[i], sliceStart, sliceEnd + 1)
                  \o SliceChunks(chunks, i + 1, 0,
                                 remainingToSend - (sliceEnd - sliceStart + 1))
  ELSE <<>>

\* tier 1: a file_data blob
ServeBlob(buf, rangeHeader) ==
  LET fileLen == Len(buf)
      range == parseRange(rangeHeader, fileLen)
  IN IF range # NoRange
     THEN IF range.start >= fileLen \/ range.end >= fileLen
          THEN Unsatisfiable(fileLen)
          ELSE LET chunk == Slice(buf, range.start, range.end + 1)
               IN Partial(chunk, range.start, range.end, fileLen, Len(chunk))
     ELSE Full(buf, fileLen)

\* tier 2: the rows of file_chunks
ServeChunks(chunks, rangeHeader) ==
  LET total == SumLens(chunks, 1)
      range == parseRange(rangeHeader, total)
  IN IF range = NoRange
     THEN Full(WriteAll(chunks, 1), total)
     ELSE IF range.start >= total \/ range.end >= total
          THEN Unsatisfiable(total)
          ELSE LET sendLen == range.end - range.start + 1
               IN Partial(SliceChunks(chunks, 1, range.start, sendLen),
                          range.start, range.end, total, sendLen)

\* tier 3: a pending pair; fs.createReadStream(binPath, { start, end })
\* reads bytes start..end, both included.
ServePending(buf, rangeHeader) ==
  LET size == Len(buf)
      range == parseRange(rangeHeader, size)
  IN IF range # NoRange
     THEN IF range.start >= size \/ range.end >= size
          THEN Unsatisfiable(size)
          ELSE Partial(SubSeq(buf, range.start + 1, range.end + 1),
                       range.start, range.end, size, range.end - range.start + 1)
     ELSE Full(buf, size)

\* The descriptors of the token whose .bin exists: the handler serves the
\* first one readdirSync lists, and the listing order is the file system's.
PendingOf(token) ==
  {j \in pendingJson : j.token = token /\ \E f \in pendingBin : f.fn = j.fn}

BinOf(fn) == (CHOOSE f \in pendingBin : f.fn = fn).buf

\* Some record of the token exists: a row of uploads in a pool, a cache
\* entry or a pending descriptor.
MetadataExists(token) ==
  \/ \E b \in Backends : \E r \in uploads[b] : r.token = token
  \/ token \in DOMAIN mappings
  \/ \E j \in pendingJson : j.token = token

\* The handler that answers 404 and drops the token from the cache.
GetAndForget(token, rangeHeader, fail) ==
  /\ last' = [kind |-> "get", token |-> token, header |-> rangeHeader,
              fail |-> fail, known |-> MetadataExists(token), tier |-> "none",
              pool |-> 0, stored |-> <<>>, res |-> NotFound]
  /\ mappings' = [t \in DOMAIN mappings \ {token} |-> mappings[t]]
  /\ UNCHANGED <<uploads, fileChunks, pendingBin, pendingJson, now,
                 nUploads, issued, loops, stream, reading>>

\* The handler that looks into the pending directory before the pools.
GetPendingFirst(token, rangeHeader, fail) ==
  /\ LET fileData == fetchFileDataFromPools(token, fail)
         fetched == fetchAllChunksAcrossPools(token, fail)
         req == [kind |-> "get", token |-> token, header |-> rangeHeader,
                 fail |-> fail, known |-> MetadataExists(token)]
     IN IF PendingOf(token) # {}
        THEN \E j \in PendingOf(token) :
               last' = req @@ [tier |-> "pending", pool |-> 0, stored |-> BinOf(j.fn),
                                 res |-> ServePending(BinOf(j.fn), rangeHeader)]
        ELSE IF fileData.found
        THEN last' = req @@ [tier |-> "blob", pool |-> fileData.pool,
                               stored |-> fileData.buf,
                               res |-> ServeBlob(fileData.buf, rangeHeader)]
        ELSE IF Len(fetched.rows) > 0
        THEN last' = req @@ [tier |-> "chunks", pool |-> fetched.pool,
                               stored |-> WriteAll(fetched.rows, 1),
                               res |-> ServeChunks(fetched.rows, rangeHeader)]
        ELSE last' = req @@ [tier |-> "none", pool |-> 0, stored |-> <<>>,
                               res |-> NotFound]
  /\ UNCHANGED <<uploads, fileChunks, pendingBin, pendingJson, mappings, now,
                 nUploads, issued, loops, stream, reading>>

\* The handler: blob, else chunks, else a pending pair, else 404.  `stored`
\* keeps the bytes the tier held, `known` whether a record of the token
\* existed, for the properties below.
Get(token, rangeHeader, fail) ==
  /\ LET fileData == fetchFileDataFromPools(token, fail)
         fetched == fetchAllChunksAcrossPools(token, fail)
         req == [kind |-> "get", token |-> token, header |-> rangeHeader,
                 fail |-> fail, known |-> MetadataExists(token)]
     IN IF fileData.found
        THEN last' = req @@ [tier |-> "blob", pool |-> fileData.pool,
                               stored |-> fileData.buf,
                               res |-> ServeBlob(fileData.buf, rangeHeader)]
        ELSE IF Len(fetched.rows) > 0
        THEN last' = req @@ [tier |-> "chunks", pool |-> fetched.pool,
                               stored |-> WriteAll(fetched.rows, 1),
                               res |-> ServeChunks(fetched.rows, rangeHeader)]
        ELSE IF PendingOf(token) # {}
        THEN \E j \in PendingOf(token) :
               last' = req @@ [tier |-> "pending", pool |-> 0, stored |-> BinOf(j.fn),
                                 res |-> ServePending(BinOf(j.fn), rangeHeader)]
        ELSE last' = req @@ [tier |-> "none", pool |-> 0, stored |-> <<>>,
                               res |-> NotFound]
  /\ UNCHANGED <<uploads, fileChunks, pendingBin, pendingJson, mappings, now,
                 nUploads, issued, loops, stream, reading>>

\* No GET is between finding a pending file and opening it.
NoRead == [token |-> NoToken, header |-> NoHeader, fn |-> <<>>, buf |-> <<>>]

\* createReadStream on a path that is gone: the headers are set, the stream
\* emits 'error' (ENOENT), nothing listens to it and no byte is sent.
Enoent == [status |-> Empty, body |-> <<>>, total |-> Empty, start |-> Empty,
           end |-> Empty, length |-> Empty]

\* The handler up to `await getDurationSeconds()` of tier 3 (line 776): no
\* pool gave a blob or chunks, the descriptor of the token is found, the
\* .bin exists and statSync gave its size; getDurationSeconds queries the
\* pools, and the handler is suspended until they have answered.
GetLocate(token, rangeHeader, fail) ==
  /\ reading = NoRead
  /\ ~fetchFileDataFromPools(token, fail).found
  /\ Len(fetchAllChunksAcrossPools(token, fail).rows) = 0
  /\ \E j \in PendingOf(token) :
       /\ reading' = [token |-> token, header |-> rangeHeader, fn |-> j.fn,
                      buf |-> BinOf(j.fn)]
       /\ last' = [kind |-> "locate", token |-> token, fn |-> j.fn]
  /\ UNCHANGED <<uploads, fileChunks, pendingBin, pendingJson, mappings, now,
                 nUploads, issued, loops, stream>>

\* The handler resumes (lines 778-802): the range is tested against the
\* size statSync gave, then fs.createReadStream(binPath) opens the path.
GetOpen ==
  /\ reading # NoRead
  /\ LET size == Len(reading.buf)
         range == parseRange(reading.header, size)
         refused == range # NoRange /\ (range.start >= size \/ range.end >= size)
     IN last' = [kind |-> "read", token |-> reading.token, header |-> reading.header,
                 fn |-> reading.fn, stored |-> reading.buf,
                 gone |-> ~\E f \in pendingBin : f.fn = reading.fn,
                 res |-> IF refused \/ \E f \in pendingBin : f.fn = reading.fn
                         THEN ServePending(reading.buf, reading.header)
                         ELSE Enoent]
  /\ reading' = NoRead
  /\ UNCHANGED <<uploads, fileChunks, pendingBin, pendingJson, mappings, now,
                 nUploads, issued, loops, stream>>

\* ------------------------------------------- reconciliation loop (part_001)

\* pendingRetryLoop() is called at the end of the startup block (line 397)
\* and again at the end of the module (line 854); each call re-arms its own
\* timer in its finally block, so each starts a chain of passes.
Chains == {"startup", "moduleEnd"}

NoCur == [fn |-> PendingName(NoToken, 0), token |-> NoToken, entry |-> NoToken, buf |-> <<>>]
Sleeping == [pc |-> "timer", files |-> {}, cur |-> NoCur]

\* The pass without the existsSync test: it takes up any name of the listing.
RunPassUnchecked(files, bins, jsons) ==
  IF files = {} THEN {Sleeping}
  ELSE {[pc |-> "await", files |-> files \ {fn},
         cur |-> IF \E j \in jsons : j.fn = fn
                 THEN LET meta == CHOOSE j \in jsons : j.fn = fn
                      IN [fn |-> fn, token |-> meta.token, entry |-> meta.entry,
                          buf |-> (CHOOSE f \in bins : f.fn = fn).buf]
                 ELSE [NoCur EXCEPT !.fn = fn]] : fn \in files}

\* for (const bin of files) await attemptFlushPendingOneToPools(bin): up to
\* the next await.  A name whose .json or .bin is gone returns false at once;
\* otherwise both files are read and the pass waits for the chunk write.
\* After the last name, finally { setTimeout(pendingRetryLoop) }.
RECURSIVE RunPass(_, _, _)
RunPass(files, bins, jsons) ==
  IF files = {} THEN {Sleeping}
  ELSE UNION {
         IF (\E j \in jsons : j.fn = fn) /\ (\E f \in bins : f.fn = fn)
         THEN LET meta == CHOOSE j \in jsons : j.fn = fn
                  buffer == (CHOOSE f \in bins : f.fn = fn).buf
              IN {[pc |-> "await", files |-> files \ {fn},
                   cur |-> [fn |-> fn, token |-> meta.token, entry |-> meta.entry,
                            buf |-> buffer]]}
         ELSE RunPass(files \ {fn}, bins, jsons)
         : fn \in files }

\* A call of pendingRetryLoop (the first one, or the timer's):
\* files = readdirSync(PENDING_DIR).filter(n => !n.endsWith('.json'))
PendingRetryLoop(c) ==
  /\ loops[c].pc \in {"call", "timer"}
  /\ \E st \in RunPass({f.fn : f \in pendingBin}, pendingBin, pendingJson) :
       loops' = [loops EXCEPT ![c] = st]
  /\ last' = [kind |-> "pass", chain |-> c]
  /\ UNCHANGED <<uploads, fileChunks, pendingBin, pendingJson, mappings, now,
                 nUploads, issued, stream, reading>>

\* A call of pendingRetryLoop in which readdirSync throws: catch logs it,
\* and finally { setTimeout(pendingRetryLoop) } arms the timer as after any
\* other pass.
PendingRetryLoopThrows(c) ==
  /\ loops[c].pc \in {"call", "timer"}
  /\ loops' = [loops EXCEPT ![c] = Sleeping]
  /\ last' = [kind |-> "passthrew", chain |-> c]
  /\ UNCHANGED <<uploads, fileChunks, pendingBin, pendingJson, mappings, now,
                 nUploads, issued, stream, reading>>

\* fs.unlinkSync(jsonPath); fs.unlinkSync(binPath): the first missing file
\* throws and the rest is not run.
UnlinkPair(bins, jsons, fn) ==
  IF \E j \in jsons : j.fn = fn
  THEN [jsons |-> {j \in jsons : j.fn # fn},
        bins |-> {f \in bins : f.fn # fn},
        threw |-> ~\E f \in bins : f.fn = fn]
  ELSE [jsons |-> jsons, bins |-> bins, threw |-> TRUE]

\* The flush that removes the pair before it knows how the chunk write
\* ended.
FlushPendingUnlinkFirst(c, failC, failM) ==
  /\ loops[c].pc = "await"
  /\ LET cur == loops[c].cur
         w == saveChunksToDBAcrossPools(fileChunks, cur.token, cur.buf, failC)
         m == saveMappingMetadataToDBAcrossPools(uploads, cur.token, cur.entry, failM, now)
         u == UnlinkPair(pendingBin, pendingJson, cur.fn)
     IN /\ pendingBin' = u.bins
        /\ pendingJson' = u.jsons
        /\ fileChunks' = IF w.ok THEN w.chunks ELSE fileChunks
        /\ uploads' = IF w.ok THEN m.uploads ELSE uploads
        /\ now' = now + 1
        /\ last' = [kind |-> "flush", chain |-> c, fn |-> cur.fn,
                    token |-> cur.token, buf |-> cur.buf, fail |-> failC,
                    ok |-> w.ok /\ ~u.threw, pool |-> w.pool,
                    wrote |-> IF w.ok THEN w.chunks[w.pool] \ fileChunks[w.pool] ELSE {},
                    metaOk |-> w.ok /\ m.ok]
        /\ \E st \in RunPass(loops[c].files, pendingBin', pendingJson') :
             loops' = [loops EXCEPT ![c] = st]
  /\ UNCHANGED <<mappings, nUploads, issued, stream, reading>>

\* attemptFlushPendingOneToPools resumes: the chunk write across the pools
\* ends; on success the metadata upsert (its error is swallowed) and the two
\* unlinks; then the pass goes on with the next file.
FlushPending(c, failC, failM) ==
  /\ loops[c].pc = "await"
  /\ LET cur == loops[c].cur
         w == saveChunksToDBAcrossPools(fileChunks, cur.token, cur.buf, failC)
         m == saveMappingMetadataToDBAcrossPools(uploads, cur.token, cur.entry, failM, now)
         u == UnlinkPair(pendingBin, pendingJson, cur.fn)
     IN /\ IF w.ok
           THEN /\ fileChunks' = w.chunks
                /\ uploads' = m.uploads
                /\ now' = now + 1
                /\ pendingBin' = u.bins
                /\ pendingJson' = u.jsons
                /\ last' = [kind |-> "flush", chain |-> c, fn |-> cur.fn,
                            token |-> cur.token, buf |-> cur.buf, fail |-> failC,
                            ok |-> ~u.threw, pool |-> w.pool,
                            wrote |-> w.chunks[w.pool] \ fileChunks[w.pool],
                            metaOk |-> m.ok]
           ELSE /\ last' = [kind |-> "flush", chain |-> c, fn |-> cur.fn,
                            token |-> cur.token, buf |-> cur.buf, fail |-> failC,
                            ok |-> FALSE, pool |-> 0, wrote |-> {},
                            metaOk |-> FALSE]
                /\ UNCHANGED <<fileChunks, uploads, now, pendingBin, pendingJson>>
        /\ \E st \in RunPass(loops[c].files, pendingBin', pendingJson') :
             loops' = [loops EXCEPT ![c] = st]
  /\ UNCHANGED <<mappings, nUploads, issued, stream, reading>>

\* ------------------------------- streaming upload (server.js, Busboy variant)

\* This variant has one pool (server.js 683); its tables are those of the
\* first pool here.
ThePool == 1

\* The placeholder tagged as a finished upload.
PlaceholderAsChunks == [tag |-> "chunks", pool |-> 0]

ChunksPending == [tag |-> "chunks_pending", pool |-> 0]
Chunks == [tag |-> "chunks", pool |-> 0]

Idle == [pc |-> "idle", token |-> NoToken, sent |-> <<>>, rest |-> <<>>, acc |-> <<>>,
         seq |-> 0, totalBytes |-> 0, wrote |-> {}, inCache |-> FALSE]

\* The most chunk inserts one event can make.
MaxPieces == (MAX_FILE_SIZE \div CHUNK_MAX_SIZE) + 1

\* while (tmp.length - offset >= CHUNK_MAX_SIZE) { await saveChunkToDB(token,
\* seq, piece); seq++; offset += CHUNK_MAX_SIZE }: each insert is its own
\* statement, so the rows before a failed insert stay.  The insert number
\* failAt of the event fails (0: none does), and so does a duplicate key.
\* The loop that goes on to the next piece after an insert that failed.
RECURSIVE SavePiecesPastFailure(_, _, _, _, _, _)
SavePiecesPastFailure(rows, token, tmp, offset, seq, failAt) ==
  IF Len(tmp) - offset >= CHUNK_MAX_SIZE
  THEN LET piece == Slice(tmp, offset, offset + CHUNK_MAX_SIZE)
       IN IF failAt = 1 \/ \E r \in rows : r.token = token /\ r.seq = seq
          THEN SavePiecesPastFailure(rows, token, tmp, offset + CHUNK_MAX_SIZE,
                                     seq + 1, 0)
          ELSE SavePiecesPastFailure(
                 rows \cup {[token |-> token, seq |-> seq, chunk |-> piece]},
                 token, tmp, offset + CHUNK_MAX_SIZE, seq + 1,
                 IF failAt = 0 THEN 0 ELSE failAt - 1)
  ELSE [ok |-> TRUE, rows |-> rows, seq |-> seq, offset |-> offset, failAt |-> failAt]

RECURSIVE SavePieces(_, _, _, _, _, _)
SavePieces(rows, token, tmp, offset, seq, failAt) ==
  IF Len(tmp) - offset >= CHUNK_MAX_SIZE
  THEN LET piece == Slice(tmp, offset, offset + CHUNK_MAX_SIZE)
       IN IF failAt = 1 \/ \E r \in rows : r.token = token /\ r.seq = seq
          THEN [ok |-> FALSE, rows |-> rows, seq |-> seq, offset |-> offset,
                failAt |-> 0]
          ELSE SavePieces(rows \cup {[token |-> token, seq |-> seq, chunk |-> piece]},
                          token, tmp, offset + CHUNK_MAX_SIZE, seq + 1,
                          IF failAt = 0 THEN 0 ELSE failAt - 1)
  ELSE [ok |-> TRUE, rows |-> rows, seq |-> seq, offset |-> offset, failAt |-> failAt]

\* flushAccumulator(finalFlush): the full pieces, then with finalFlush the
\* remainder as the last chunk; accBuffers is replaced by the remainder only
\* once the loop is through.
flushAccumulator(rows, token, acc, seq, failAt, finalFlush) ==
  IF Len(acc) = 0
  THEN [ok |-> TRUE, rows |-> rows, seq |-> seq, acc |-> acc]
  ELSE LET p == SavePieces(rows, token, acc, 0, seq, failAt)
           remainder == Slice(acc, p.offset, Len(acc))
       IN IF ~p.ok
          THEN [ok |-> FALSE, rows |-> p.rows, seq |-> p.seq, acc |-> acc]
          ELSE IF finalFlush /\ Len(remainder) > 0
          THEN IF p.failAt = 1 \/ \E r \in p.rows : r.token = token /\ r.seq = p.seq
               THEN [ok |-> FALSE, rows |-> p.rows, seq |-> p.seq, acc |-> remainder]
               ELSE [ok |-> TRUE,
                     rows |-> p.rows \cup {[token |-> token, seq |-> p.seq,
                                            chunk |-> remainder]},
                     seq |-> p.seq + 1, acc |-> <<>>]
          ELSE [ok |-> TRUE, rows |-> p.rows, seq |-> p.seq, acc |-> remainder]

\* POST /upload up to the 'file' event: the token and its placeholder in the
\* cache come first.  Busboy (limits.fileSize) ends the file stream after
\* MAX_FILE_SIZE bytes and sets fileStream.truncated; the handler has no
\* 'limit' listener and never reads truncated.
StreamUpload(token, n) ==
  /\ nUploads < MaxUploads
  /\ stream.pc = "idle"
  /\ LET sent == Payload(n, nUploads + 1)
     IN /\ stream' = [Idle EXCEPT !.pc = "open", !.token = token, !.sent = sent,
                                  !.rest = SubSeq(sent, 1, Min(n, MAX_FILE_SIZE)),
                                  !.inCache = token \in DOMAIN mappings]
        /\ mappings' = Put(mappings, token,
                           [token |-> token, name |-> nUploads + 1, size |-> 0,
                            createdAt |-> now, storage |-> ChunksPending])
        /\ last' = [kind |-> "open", token |-> token, size |-> n]
  /\ nUploads' = nUploads + 1
  /\ now' = now + 1
  /\ UNCHANGED <<uploads, fileChunks, pendingBin, pendingJson, issued, loops, reading>>

\* What a handler of the stream answers, and what the upload wrote; answers
\* counts the calls of res.json for the request: cleanupAndAbort sets
\* aborted, and the 'end' listener never reads it.
StreamAnswer(status, note, st, rows) ==
  [kind |-> "stream", status |-> status, token |-> st.token, size |-> Len(st.sent),
   note |-> note, buf |-> st.sent, pool |-> ThePool,
   wrote |-> st.wrote \cup (rows \ fileChunks[ThePool]), inCache |-> st.inCache,
   answers |-> IF st.pc = "aborted" THEN 2 ELSE 1]

\* fileStream.on('data'): the chunk joins the accumulator; once a full piece
\* is there the full pieces are inserted.  When an insert fails the rest of
\* the stream is drained and the accumulator goes to a pending pair (with
\* the drained chunks when the drain passes them to this listener, without
\* them when it does not), the answer is 200 with an error text, and the
\* listeners of busboy are removed.
StreamData(len, failAt) ==
  /\ stream.pc = "open"
  /\ len \in 1..Len(stream.rest)
  /\ LET chunk == SubSeq(stream.rest, 1, len)
         more == SubSeq(stream.rest, len + 1, Len(stream.rest))
         tmp == stream.acc \o chunk
         p == SavePieces(fileChunks[ThePool], stream.token, tmp, 0, stream.seq, failAt)
         fn == PendingName(stream.token, now)
     IN IF p.ok
        THEN /\ fileChunks' = [fileChunks EXCEPT ![ThePool] = p.rows]
             /\ stream' = [stream EXCEPT !.rest = more,
                                         !.acc = Slice(tmp, p.offset, Len(tmp)),
                                         !.seq = p.seq,
                                         !.totalBytes = @ + len,
                                         !.wrote = @ \cup (p.rows \ fileChunks[ThePool])]
             /\ last' = [kind |-> "data", token |-> stream.token, size |-> len]
             /\ UNCHANGED <<pendingBin, pendingJson, mappings, now, issued>>
        ELSE \E drained \in {<<>>, more} :
             /\ fileChunks' = [fileChunks EXCEPT ![ThePool] = p.rows]
             /\ pendingBin' = WriteBin(pendingBin, fn, tmp \o drained)
             /\ pendingJson' = WriteJson(pendingJson, fn, stream.token,
                                         mappings[stream.token], now)
             /\ mappings' = [mappings EXCEPT ![stream.token] =
                               [@ EXCEPT !.size = stream.totalBytes + len + Len(drained),
                                         !.storage = PendingDisk]]
             /\ stream' = [stream EXCEPT !.pc = "aborted", !.rest = <<>>,
                                         !.acc = tmp \o drained, !.seq = p.seq,
                                         !.totalBytes = @ + len + Len(drained),
                                         !.wrote = @ \cup (p.rows \ fileChunks[ThePool])]
             /\ last' = StreamAnswer(200, "Saved to disk pending due to DB error",
                                     stream, p.rows)
             /\ now' = now + 1
             /\ UNCHANGED issued
  /\ UNCHANGED <<uploads, nUploads, loops, reading>>

\* fileStream.on('end'): flushAccumulator(true), then the cache entry, the
\* metadata upsert (its failure is ignored) and the 200; when an insert
\* failed, the accumulator goes to a pending pair and the answer is 200 with
\* a note.
StreamEnd(failAt, failM) ==
  /\ stream.pc = "open"
  /\ stream.rest = <<>>
  /\ LET f == flushAccumulator(fileChunks[ThePool], stream.token, stream.acc,
                               stream.seq, failAt, TRUE)
         entry == [mappings[stream.token] EXCEPT !.size = stream.totalBytes,
                                                 !.storage = Chunks,
                                                 !.createdAt = now]
         fn == PendingName(stream.token, now)
     IN /\ fileChunks' = [fileChunks EXCEPT ![ThePool] = f.rows]
        /\ issued' = issued \cup {[token |-> stream.token, buf |-> stream.sent]}
        /\ IF f.ok
           THEN /\ mappings' = [mappings EXCEPT ![stream.token] = entry]
                /\ uploads' = IF failM THEN uploads
                              ELSE [uploads EXCEPT ![ThePool] =
                                      UpsertRow(@, stream.token, entry, now)]
                /\ last' = StreamAnswer(200, "", stream, f.rows)
                /\ UNCHANGED <<pendingBin, pendingJson>>
           ELSE /\ pendingBin' = WriteBin(pendingBin, fn, f.acc)
                /\ pendingJson' = WriteJson(pendingJson, fn, stream.token,
                                            mappings[stream.token], now)
                /\ mappings' = [mappings EXCEPT ![stream.token] =
                                  [@ EXCEPT !.size = stream.totalBytes,
                                            !.storage = PendingDisk]]
                /\ last' = StreamAnswer(200, "saved-locally-pending-db", stream, f.rows)
                /\ UNCHANGED uploads
  /\ stream' = Idle
  /\ now' = now + 1
  /\ UNCHANGED <<nUploads, loops, reading>>

\* The 'end' listener after the data listener drained the stream: the
\* for await of the drain ends when the stream has ended, so 'end' is
\* emitted; cleanupAndAbort removes the listeners of busboy, not those of
\* fileStream.  The listener is the same code as above, run on what the
\* data listener left: accBuffers still holds the buffer whose insert
\* failed, seq is the sequence number of that insert.  Its res.json comes
\* after the answer of cleanupAndAbort: it throws (the catch then writes
\* the accumulator to a pending pair and sets 'pending_disk') or it does
\* not.  The client has the answer of cleanupAndAbort; the event of this
\* listener is of a kind of its own.
StreamEndAfterAbort(failAt, failM, thrown) ==
  /\ stream.pc = "aborted"
  /\ LET f == flushAccumulator(fileChunks[ThePool], stream.token, stream.acc,
                               stream.seq, failAt, TRUE)
         entry == [mappings[stream.token] EXCEPT !.size = stream.totalBytes,
                                                 !.storage = Chunks,
                                                 !.createdAt = now]
         reached == IF f.ok THEN entry ELSE mappings[stream.token]
         fn == PendingName(stream.token, now)
     IN /\ fileChunks' = [fileChunks EXCEPT ![ThePool] = f.rows]
        /\ uploads' = IF f.ok /\ ~failM
                      THEN [uploads EXCEPT ![ThePool] =
                              UpsertRow(@, stream.token, entry, now)]
                      ELSE uploads
        /\ IF f.ok /\ ~thrown
           THEN /\ mappings' = [mappings EXCEPT ![stream.token] = entry]
                /\ last' = [StreamAnswer(200, "", stream, f.rows)
                              EXCEPT !.kind = "again"]
                /\ UNCHANGED <<pendingBin, pendingJson>>
           ELSE /\ pendingBin' = WriteBin(pendingBin, fn, f.acc)
                /\ pendingJson' = WriteJson(pendingJson, fn, stream.token, reached, now)
                /\ mappings' = [mappings EXCEPT ![stream.token] =
                                  [reached EXCEPT !.size = stream.totalBytes,
                                                  !.storage = PendingDisk]]
                /\ last' = [StreamAnswer(200, "saved-locally-pending-db", stream, f.rows)
                              EXCEPT !.kind = "again"]
        /\ stream' = [stream EXCEPT !.pc = "finalized", !.acc = f.acc, !.seq = f.seq,
                                    !.wrote = @ \cup (f.rows \ fileChunks[ThePool])]
  /\ now' = now + 1
  /\ UNCHANGED <<nUploads, issued, loops, reading>>

\* POST /upload whose body has no file part: the token and its placeholder
\* are made and saved (lines 909-911) before busboy has parsed anything;
\* no 'file' event comes, and busboy.on('finish') answers 400.
StreamNoFile(token) ==
  /\ nUploads < MaxUploads
  /\ stream.pc = "idle"
  /\ mappings' = Put(mappings, token,
                     [token |-> token, name |-> 0, size |-> 0,
                      createdAt |-> now, storage |-> ChunksPending])
  /\ last' = [kind |-> "nofile", status |-> 400, token |-> token,
              before |-> mappings]
  /\ nUploads' = nUploads + 1
  /\ now' = now + 1
  /\ UNCHANGED <<uploads, fileChunks, pendingBin, pendingJson, issued, loops,
                 stream, reading>>

\* fileStream.on('error'): cleanupAndAbort(500, 'Stream error') and nothing
\* else; the rows inserted so far and the placeholder stay.
StreamError ==
  /\ stream.pc = "open"
  /\ stream' = [stream EXCEPT !.pc = "errored", !.rest = <<>>]
  /\ last' = StreamAnswer(500, "Stream error", stream, fileChunks[ThePool])
  /\ UNCHANGED <<uploads, fileChunks, pendingBin, pendingJson, mappings, now,
                 nUploads, issued, loops, reading>>

\* The client goes away in mid-stream.  The handler listens to nothing of
\* req itself: either no listener runs again, or busboy reports the short
\* body to busboy.on('error'), which answers 500 through cleanupAndAbort.
StreamDrop(reported) ==
  /\ stream.pc = "open"
  /\ stream.rest # <<>>
  /\ stream' = [stream EXCEPT !.pc = "dropped", !.rest = <<>>]
  /\ last' = IF reported
             THEN StreamAnswer(500, "Upload parsing error", stream, fileChunks[ThePool])
             ELSE [kind |-> "drop", token |-> stream.token, size |-> Len(stream.sent)]
  /\ UNCHANGED <<uploads, fileChunks, pendingBin, pendingJson, mappings, now,
                 nUploads, issued, loops, reading>>

\* ---------------------------------------------------------- initial states

\* saveFileToDB of the single-blob variant:
\* INSERT INTO uploads (token, data, file_data, created_at) ... ON CONFLICT
\* (token) DO UPDATE SET data, file_data, created_at
SaveFileRow(rows, token, entry, buffer, t) ==
  {r \in rows : r.token # token}
  \cup {[token |-> token, data |-> entry, file |-> buffer, created_at |-> t]}

LegacyEntry(n) ==
  [token |-> LegacyToken, name |-> 0, size |-> n, createdAt |-> 0, storage |-> Db]

EmptyTables == [b \in Backends |-> {}]

\* The tables at startup: empty, or one pool holding an object the
\* single-blob variant stored.
LegacyTables ==
  {EmptyTables} \cup
  {[EmptyTables EXCEPT ![b] =
      SaveFileRow({}, LegacyToken, LegacyEntry(CHUNK_MAX_SIZE + 1),
                  Payload(CHUNK_MAX_SIZE + 1, 0), 0)] : b \in Backends}

\* The startup block, lines 359-374: the rows of every pool, pool after
\* pool; a row replaces what an earlier pool gave for its token when its
\* created_at is not older; the entry takes the row's created_at.
RECURSIVE MergeRows(_, _)
MergeRows(rows, dbm) ==
  IF rows = {} THEN dbm
  ELSE LET r == CHOOSE x \in rows : TRUE
           newer == r.token \notin DOMAIN dbm \/ r.created_at >= dbm[r.token].createdAt
       IN MergeRows(rows \ {r},
                    IF newer
                    THEN Put(dbm, r.token, [r.data EXCEPT !.createdAt = r.created_at])
                    ELSE dbm)

RECURSIVE MergeFrom(_, _, _)
MergeFrom(b, up, dbm) ==
  IF b > NumBackends THEN dbm ELSE MergeFrom(b + 1, up, MergeRows(up[b], dbm))

LoadedMappings(up) == MergeFrom(1, up, <<>>)

InitWith(tables) ==
  /\ uploads = tables
  /\ fileChunks = EmptyTables
  /\ pendingBin = {}
  /\ pendingJson = {}
  /\ mappings = LoadedMappings(uploads)
  /\ now = 1
  /\ nUploads = 0
  /\ issued = {}
  /\ loops = [c \in Chains |-> [pc |-> "call", files |-> {}, cur |-> NoCur]]
  /\ last = NoEvent
  /\ stream = Idle
  /\ reading = NoRead

\* The process starts on empty tables and an empty pending directory.
Init == InitWith(EmptyTables)

\* The process starts on tables the single-blob variant may have written.
InitLegacy == \E tables \in LegacyTables : InitWith(tables)

\* ----------------------------------------------------------- the startup

\* The merge of the startup block over the pools that answer the SELECT; a
\* pool whose query throws is logged and left out.
RECURSIVE MergeAnswering(_, _, _, _)
MergeAnswering(b, up, fail, dbm) ==
  IF b > NumBackends THEN dbm
  ELSE MergeAnswering(b + 1, up, fail,
                      IF b \in fail THEN dbm ELSE MergeRows(up[b], dbm))

\* Object.assign({}, first, second): the keys of both, second over first.
Assign(first, second) ==
  [t \in DOMAIN first \cup DOMAIN second |->
     IF t \in DOMAIN second THEN second[t] ELSE first[t]]

\* for (const [token, entry] of Object.entries(mappings))
\*   try { await saveMappingMetadataToDBAcrossPools(token, entry) } catch {}
RECURSIVE PersistAll(_, _, _, _, _)
PersistAll(tokens, up, maps, fail, t) ==
  IF tokens = {} THEN up
  ELSE LET token == CHOOSE x \in tokens : TRUE
       IN PersistAll(tokens \ {token},
                     saveMappingMetadataToDBAcrossPools(up, token, maps[token], fail, t).uploads,
                     maps, fail, t)

\* The startup block of part_001, lines 356-402: dbm from the pools, then
\* mappings = Object.assign({}, dbm, mappings), then every entry upserted.
\* variant "blob" is the block of the single-blob variant, server.js
\* 430-476, whose merge is Object.assign({}, mappings, dbm).
Startup(variant, fail) ==
  /\ last.kind = "none"
  /\ LET dbm == MergeAnswering(1, uploads, fail, <<>>)
         merged == IF variant = "chunks" THEN Assign(dbm, mappings)
                   ELSE Assign(mappings, dbm)
     IN /\ mappings' = merged
        /\ uploads' = PersistAll(DOMAIN merged, uploads, merged, fail, now)
        /\ last' = [kind |-> "startup", variant |-> variant, fail |-> fail,
                    local |-> mappings, tables |-> uploads]
  /\ now' = now + 1
  /\ UNCHANGED <<fileChunks, pendingBin, pendingJson, nUploads, issued, loops, stream, reading>>

\* A record of the token LegacyToken as upload number name left it.
RecordOf(name, t) ==
  [token |-> LegacyToken, name |-> name, size |-> CHUNK_MAX_SIZE, createdAt |-> t,
   storage |-> Db]

\* What a pool may hold of the token when the process starts: nothing, or
\* the row a process wrote there at a time before now.
RowsAtStart(b) ==
  {{}} \cup {UpsertRow({}, LegacyToken, RecordOf(b, t), t) : t \in 0..(MaxTime - 1)}

\* What upload.json may hold: nothing, or a record of the token no pool has.
LocalAtStart ==
  {<<>>, Put(<<>>, LegacyToken, RecordOf(NumBackends + 1, 0))}

\* The process starts: loadMappingsFromDisk() has run (line 102), the
\* startup block has not.
InitStartup ==
  /\ uploads \in [Backends -> UNION {RowsAtStart(b) : b \in Backends}]
  /\ \A b \in Backends : uploads[b] \in RowsAtStart(b)
  /\ mappings \in LocalAtStart
  /\ fileChunks = EmptyTables
  /\ pendingBin = {}
  /\ pendingJson = {}
  /\ now = MaxTime
  /\ nUploads = 0
  /\ issued = {}
  /\ loops = [c \in Chains |-> [pc |-> "call", files |-> {}, cur |-> NoCur]]
  /\ last = NoEvent
  /\ stream = Idle
  /\ reading = NoRead

\* ------------------------------------------------------------- a crash

\* The process dies in saveBufferToPending between its two writeFileSync:
\* the upload found no pool, the .bin is on the disk and the .json is not.
\* The process starts again: the cache is loaded from the pools and both
\* calls of pendingRetryLoop are made anew.
UploadCrash(token, n) ==
  /\ nUploads < MaxUploads
  /\ n <= MAX_FILE_SIZE
  /\ LET fn == PendingName(token, now)
     IN /\ pendingBin' = WriteBin(pendingBin, fn, Payload(n, nUploads + 1))
        /\ last' = [kind |-> "crash", fn |-> fn]
  /\ mappings' = LoadedMappings(uploads)
  /\ loops' = [c \in Chains |-> [pc |-> "call", files |-> {}, cur |-> NoCur]]
  /\ stream' = Idle
  /\ reading' = NoRead
  /\ now' = now + 1
  /\ nUploads' = nUploads + 1
  /\ UNCHANGED <<uploads, fileChunks, pendingJson, issued>>

\* ------------------------------------ metadata upsert called on its own

\* What a pool does with the query of a write: it runs it ("ok"); it fails
\* with another error ("down"); it answers that the relation or the column
\* does not exist, and then runMigrationsOnPool repairs it and the second
\* try runs ("noschema"), or runMigrationsOnPool throws ("broken"), or the
\* second try fails as well ("retryfails").
Health == [Backends -> {"ok", "down", "noschema", "broken", "retryfails"}]

\* saveMappingMetadataToDB, server.js 359-386: the first pool that takes the
\* query, after a migration and a second try where the schema was missing;
\* when no pool does the function returns nothing and does not throw.
RECURSIVE SaveMetaRetryFrom(_, _, _, _, _, _)
SaveMetaRetryFrom(b, up, token, entry, health, t) ==
  IF b > NumBackends
  THEN [ok |-> FALSE, pool |-> 0, uploads |-> up]
  ELSE IF health[b] \in {"ok", "noschema"}
       THEN [ok |-> TRUE, pool |-> b,
             uploads |-> [up EXCEPT ![b] = UpsertRow(up[b], token, entry, t)]]
       ELSE SaveMetaRetryFrom(b + 1, up, token, entry, health, t)

saveMappingMetadataToDB(up, token, entry, health, t) ==
  SaveMetaRetryFrom(1, up, token, entry, health, t)

\* The records the upsert is called with.
MetaEntry(token, name) ==
  [token |-> token, name |-> name, size |-> 0, createdAt |-> 0, storage |-> Db]

NoCall == [token |-> NoToken, entry |-> NoToken, ok |-> FALSE]

\* The call before the last one.
PrevCall ==
  IF last.kind = "upsert"
  THEN [token |-> last.token, entry |-> last.entry, ok |-> last.ok]
  ELSE NoCall

\* One call of saveMappingMetadataToDBAcrossPools; NOW() moves on between
\* two calls.
UpsertAcrossPools(token, name, fail) ==
  /\ now < MaxTime
  /\ LET entry == MetaEntry(token, name)
         m == saveMappingMetadataToDBAcrossPools(uploads, token, entry, fail, now)
     IN /\ uploads' = m.uploads
        /\ last' = [kind |-> "upsert", token |-> token, entry |-> entry,
                    ok |-> m.ok, prev |-> PrevCall]
  /\ now' = now + 1
  /\ UNCHANGED <<fileChunks, pendingBin, pendingJson, mappings, nUploads, issued, loops, stream, reading>>

\* One call of saveMappingMetadataToDB.
UpsertWithRetry(token, name, health) ==
  /\ now < MaxTime
  /\ LET entry == MetaEntry(token, name)
         m == saveMappingMetadataToDB(uploads, token, entry, health, now)
     IN /\ uploads' = m.uploads
        /\ last' = [kind |-> "upsert", token |-> token, entry |-> entry,
                    ok |-> m.ok, prev |-> PrevCall,
                    pool |-> m.pool, health |-> health]
  /\ now' = now + 1
  /\ UNCHANGED <<fileChunks, pendingBin, pendingJson, mappings, nUploads, issued, loops, stream, reading>>

\* ------------------------------------------- writes on a missing schema

\* What saveFileToDB does in one pool: the query, and after a "does not
\* exist" error runMigrationsOnPool and the query once more.
StepsIn(b, health) ==
  CASE health[b] \in {"ok", "down"} -> <<[pool |-> b, op |-> "query"]>>
    [] health[b] = "broken" -> <<[pool |-> b, op |-> "query"],
                                 [pool |-> b, op |-> "migrate"]>>
    [] OTHER -> <<[pool |-> b, op |-> "query"], [pool |-> b, op |-> "migrate"],
                  [pool |-> b, op |-> "query"]>>

\* saveFileToDB, server.js 300-342: pool after pool; log is what was run.
RECURSIVE SaveFileFrom(_, _, _, _, _, _, _, _)
SaveFileFrom(b, up, token, entry, buffer, health, t, log) ==
  IF b > NumBackends
  THEN [ok |-> FALSE, pool |-> 0, uploads |-> up, log |-> log]
  ELSE IF health[b] \in {"ok", "noschema"}
       THEN [ok |-> TRUE, pool |-> b, log |-> log \o StepsIn(b, health),
             uploads |-> [up EXCEPT ![b] =
                            SaveFileRow(up[b], token,
                                        [entry EXCEPT !.storage = StoredOn(b)],
                                        buffer, t)]]
       ELSE SaveFileFrom(b + 1, up, token, entry, buffer, health, t,
                         log \o StepsIn(b, health))

saveFileToDB(up, token, entry, buffer, health, t) ==
  SaveFileFrom(1, up, token, entry, buffer, health, t, <<>>)

\* genUniqueToken, server.js 395-400: t is the last of the draws of
\* genToken(8); it is taken only when every one of the 101 draws was, and
\* then the draw of genToken(12) is returned as it comes.
genUniqueToken(t, fallback) == IF t \in DOMAIN mappings THEN fallback ELSE t

\* POST /upload of the single-blob variant, server.js 525-571: the row with
\* the bytes, then the cache, the answer, and the metadata upsert that is
\* not awaited; 500 when no pool took the row.
UploadBlob(t, fallback, n, health) ==
  /\ nUploads < MaxUploads
  /\ n <= MAX_FILE_SIZE
  /\ LET token == genUniqueToken(t, fallback)
         buf == Payload(n, nUploads + 1)
         entry == [token |-> token, name |-> nUploads + 1, size |-> n,
                   createdAt |-> now, storage |-> Db]
         f == saveFileToDB(uploads, token, entry, buf, health, now)
         stored == [entry EXCEPT !.storage = StoredOn(f.pool)]
         m == saveMappingMetadataToDB(f.uploads, token, stored, health, now)
     IN /\ uploads' = IF f.ok THEN m.uploads ELSE uploads
        /\ mappings' = IF f.ok THEN Put(mappings, token, stored) ELSE mappings
        /\ issued' = IF f.ok THEN issued \cup {[token |-> token, buf |-> buf]}
                     ELSE issued
        /\ last' = [kind |-> "blob", status |-> IF f.ok THEN 200 ELSE 500,
                    token |-> token, health |-> health, ok |-> f.ok,
                    pool |-> f.pool, log |-> f.log,
                    inCache |-> token \in DOMAIN mappings]
  /\ now' = now + 1
  /\ nUploads' = nUploads + 1
  /\ UNCHANGED <<fileChunks, pendingBin, pendingJson, loops, stream, reading>>

\* part_001 makes no difference between the errors of a pool: every pool
\* that is not "ok" is one that fails.
FailOf(health) == {b \in Backends : health[b] # "ok"}

\* One call of saveChunksToDBAcrossPools of part_001 on pools in any state.
ChunkWrite(token, n, health) ==
  /\ nUploads < MaxUploads
  /\ n <= MAX_FILE_SIZE
  /\ LET buf == Payload(n, nUploads + 1)
         c == saveChunksToDBAcrossPools(fileChunks, token, buf, FailOf(health))
     IN /\ fileChunks' = c.chunks
        /\ last' = [kind |-> "chunkwrite", token |-> token, health |-> health,
                    ok |-> c.ok, pool |-> c.pool, buf |-> buf]
  /\ nUploads' = nUploads + 1
  /\ UNCHANGED <<uploads, pendingBin, pendingJson, mappings, now, issued, loops, stream, reading>>

\* ------------------------------------ the chunk write as a transaction

\* The INSERT loop of saveChunksToDBAcrossPools in which the insert number
\* failAt throws (0: none does), as does an insert whose key is taken; rows
\* is what the transaction has written when the loop ends or throws.
RECURSIVE InsertChunksUntil(_, _, _, _, _, _)
InsertChunksUntil(rows, token, buffer, offset, seq, failAt) ==
  IF offset < Len(buffer)
  THEN LET piece == Slice(buffer, offset, Min(offset + CHUNK_MAX_SIZE, Len(buffer)))
       IN IF failAt = 1 \/ \E r \in rows : r.token = token /\ r.seq = seq
          THEN [ok |-> FALSE, rows |-> rows]
          ELSE InsertChunksUntil(
                 rows \cup {[token |-> token, seq |-> seq, chunk |-> piece]},
                 token, buffer, offset + CHUNK_MAX_SIZE, seq + 1,
                 IF failAt = 0 THEN 0 ELSE failAt - 1)
  ELSE [ok |-> TRUE, rows |-> rows]

\* Every INSERT on its own, with no BEGIN: what was inserted stays.
Autocommit(rows, tx) == tx.rows

\* BEGIN ... COMMIT, and ROLLBACK in the catch: the table after the
\* transaction tx that started on rows.
Transaction(rows, tx) == IF tx.ok THEN tx.rows ELSE rows

\* saveChunksToDBAcrossPools with the failing insert of every pool given.
RECURSIVE SaveChunksTxFrom(_, _, _, _, _)
SaveChunksTxFrom(b, ch, token, buffer, failAt) ==
  IF b > NumBackends
  THEN [ok |-> FALSE, pool |-> 0, chunks |-> ch]
  ELSE LET tx == InsertChunksUntil(ch[b], token, buffer, 0, 0, failAt[b])
           after == [ch EXCEPT ![b] = Transaction(ch[b], tx)]
       IN IF tx.ok
          THEN [ok |-> TRUE, pool |-> b, chunks |-> after]
          ELSE SaveChunksTxFrom(b + 1, after, token, buffer, failAt)

\* One call of saveChunksToDBAcrossPools while inserts fail part-way.
ChunkWriteTx(token, n, failAt) ==
  /\ nUploads < MaxUploads
  /\ n <= MAX_FILE_SIZE
  /\ LET buf == Payload(n, nUploads + 1)
         c == SaveChunksTxFrom(1, fileChunks, token, buf, failAt)
     IN /\ fileChunks' = c.chunks
        /\ last' = [kind |-> "txwrite", token |-> token, failAt |-> failAt,
                    ok |-> c.ok, pool |-> c.pool, buf |-> buf,
                    before |-> fileChunks]
  /\ nUploads' = nUploads + 1
  /\ UNCHANGED <<uploads, pendingBin, pendingJson, mappings, now, issued, loops, stream, reading>>

\* ------------------------------------- the replay of the Busboy variant

\* attemptFlushPendingOne of the Busboy variant, server.js 825-854, for the
\* pair fn that a pass of pendingRetryLoop takes up: the buffer is inserted
\* piece by piece from seq 0, every INSERT on its own; when all are in, the
\* metadata upsert (its error is swallowed) and the two unlinks; when one
\* throws, the rows inserted before it stay and the pair stays.
FlushPendingOne(fn, failAt, failM) ==
  /\ \E j \in pendingJson : j.fn = fn
  /\ \E f \in pendingBin : f.fn = fn
  /\ LET meta == CHOOSE j \in pendingJson : j.fn = fn
         buffer == BinOf(fn)
         tx == InsertChunksUntil(fileChunks[ThePool], meta.token, buffer, 0, 0, failAt)
         u == UnlinkPair(pendingBin, pendingJson, fn)
     IN /\ fileChunks' = [fileChunks EXCEPT ![ThePool] = Autocommit(@, tx)]
        /\ IF tx.ok
           THEN /\ uploads' = IF failM THEN uploads
                              ELSE [uploads EXCEPT ![ThePool] =
                                      UpsertRow(@, meta.token, meta.entry, now)]
                /\ pendingBin' = u.bins
                /\ pendingJson' = u.jsons
           ELSE UNCHANGED <<uploads, pendingBin, pendingJson>>
        /\ last' = [kind |-> "replay", fn |-> fn, token |-> meta.token,
                    ok |-> tx.ok, failAt |-> failAt]
  /\ UNCHANGED <<mappings, now, nUploads, issued, loops, stream, reading>>

\* --------------------------------------------------- GET /uploads (server.js)

\* rows.sort by created_at, newest first
RECURSIVE SortNewestFirst(_)
SortNewestFirst(items) ==
  IF items = {} THEN <<>>
  ELSE LET first == CHOOSE x \in items : \A y \in items : x.createdAt >= y.createdAt
       IN <<first>> \o SortNewestFirst(items \ {first})

\* a.slice(from, to)
SliceSeq(a, from, to) == SubSeq(a, from + 1, Min(to, Len(a)))

\* SELECT token, ..., created_at FROM uploads ORDER BY created_at DESC
\* LIMIT $1 OFFSET $2, in one pool
QueryPage(b, limit, offset) ==
  SliceSeq(SortNewestFirst({[token |-> r.token, createdAt |-> r.created_at,
                             source |-> b] : r \in uploads[b]}),
           offset, offset + limit)

\* itemsRaw: the pages of the pools that answer, pool after pool
RECURSIVE ItemsRawFrom(_, _, _, _)
ItemsRawFrom(b, limit, offset, fail) ==
  IF b > NumBackends THEN <<>>
  ELSE (IF b \in fail THEN <<>> ELSE QueryPage(b, limit, offset))
       \o ItemsRawFrom(b + 1, limit, offset, fail)

\* for (const it of itemsRaw) if (!map[it.token] || it.createdAt >
\* map[it.token].createdAt) map[it.token] = it
RECURSIVE DedupeByToken(_, _, _)
DedupeByToken(itemsRaw, i, map) ==
  IF i > Len(itemsRaw) THEN map
  ELSE LET it == itemsRaw[i]
       IN DedupeByToken(itemsRaw, i + 1,
            IF it.token \notin DOMAIN map \/ it.createdAt > map[it.token].createdAt
            THEN Put(map, it.token, it) ELSE map)

\* The handler: the page of every pool, deduplicated, sorted, and sliced
\* with the same offset and limit once more.
ListUploads(limit, offset, fail) ==
  LET map == DedupeByToken(ItemsRawFrom(1, limit, offset, fail), 1, <<>>)
  IN SliceSeq(SortNewestFirst({map[t] : t \in DOMAIN map}), offset, offset + limit)

GetUploads(limit, offset, fail) ==
  /\ last' = [kind |-> "list", limit |-> limit, offset |-> offset, fail |-> fail,
              items |-> ListUploads(limit, offset, fail)]
  /\ UNCHANGED <<uploads, fileChunks, pendingBin, pendingJson, mappings, now,
                 nUploads, issued, loops, stream, reading>>

\* ------------------------------------------------------------ specification

\* Sizes of the objects submitted where the size is not what is looked at:
\* empty, and one byte more than a chunk.
UploadSizes == {0, CHUNK_MAX_SIZE + 1}

\* The metadata upsert of a handler: every pool answers, or none does.
AllOrNone == {{}, Backends}

\* The service of part_001: uploads, whole-object reads, and the two chains
\* of reconciliation passes.
Next ==
  \/ \E token \in GenToken(10), n \in UploadSizes :
       \E failC \in SUBSET Backends, failM \in AllOrNone :
         Upload(token, n, failC, failM)
  \/ UploadTooLarge(MAX_FILE_SIZE + 1)
  \/ UploadNoFile
  \/ \E token \in GenToken(10), fail \in AllOrNone : Get(token, NoHeader, fail)
  \/ \E c \in Chains : PendingRetryLoop(c)
  \/ \E c \in Chains : \E failC \in SUBSET Backends, failM \in AllOrNone :
       FlushPending(c, failC, failM)

Spec == Init /\ [][Next]_vars

\* One object is stored, of any size and in any tier, or was left by the
\* single-blob variant; one request then reads it, with any Range header.
NextRead ==
  \/ /\ nUploads = 0
     /\ last.kind = "none"
     /\ \E token \in GenToken(10), n \in 0..MAX_FILE_SIZE :
          \E failC \in SUBSET Backends, failM \in AllOrNone :
            Upload(token, n, failC, failM)
  \/ /\ last.kind # "get"
     /\ \E token \in Tokens, header \in Headers, fail \in AllOrNone :
          Get(token, header, fail)

SpecRead == InitLegacy /\ [][NextRead]_vars

\* The metadata upsert called again and again, with any token, either of two
\* records and any state of the pools.
NextMeta ==
  \/ \E token \in GenToken(10), name \in 1..2, fail \in SUBSET Backends :
       UpsertAcrossPools(token, name, fail)
  \/ \E token \in GenToken(10), name \in 1..2, health \in Health :
       UpsertWithRetry(token, name, health)

SpecMeta == Init /\ [][NextMeta]_vars

\* One object is written: by the handler of part_001, or streamed to the
\* Busboy variant in data events of any length, while inserts fail or not.
NextWrite ==
  \/ /\ nUploads = 0
     /\ \E token \in GenToken(10), n \in 0..MAX_FILE_SIZE :
          \E failC \in SUBSET Backends, failM \in AllOrNone :
            Upload(token, n, failC, failM)
  \/ nUploads = 0 /\ UploadTooLarge(MAX_FILE_SIZE + 1)
  \/ /\ nUploads = 0
     /\ \E token \in GenToken(10), n \in 0..(MAX_FILE_SIZE + 1) : StreamUpload(token, n)
  \/ \E len \in 1..(MAX_FILE_SIZE + 1), failAt \in 0..MaxPieces : StreamData(len, failAt)
  \/ \E failAt \in 0..1, failM \in BOOLEAN : StreamEnd(failAt, failM)
  \/ \E failAt \in 0..1, failM \in BOOLEAN, thrown \in BOOLEAN :
       StreamEndAfterAbort(failAt, failM, thrown)
  \/ StreamError
  \/ \E reported \in BOOLEAN : StreamDrop(reported)

SpecWrite == Init /\ [][NextWrite]_vars

\* Metadata records are upserted, then one request lists them.
NextList ==
  \/ /\ last.kind # "list"
     /\ \E token \in GenToken(10), name \in 1..2, fail \in SUBSET Backends :
          UpsertAcrossPools(token, name, fail)
  \/ /\ last.kind # "list"
     /\ \E limit \in 1..MaxPage, offset \in 0..MaxPage, fail \in SUBSET Backends :
          GetUploads(limit, offset, fail)

SpecList == Init /\ [][NextList]_vars

\* Objects are written while any of the pools fail, on tables that may hold
\* a blob of the single-blob variant, and one request then reads a token
\* while any of the pools fail.
NextProbe ==
  \/ /\ last.kind # "get"
     /\ \E token \in GenToken(10), n \in UploadSizes, fail \in SUBSET Backends :
          Upload(token, n, fail, fail)
  \/ /\ last.kind # "get"
     /\ \E token \in Tokens, fail \in SUBSET Backends : Get(token, NoHeader, fail)

SpecProbe == InitLegacy /\ [][NextProbe]_vars

\* One write of the single-blob variant or one chunk write of part_001 on
\* pools of which any may lack the schema, and after an upload a second one
\* whose draws of genToken(8) all meet the token of the first.
NextSchema ==
  \/ /\ last.kind = "none"
     /\ \E t \in GenToken(8), fallback \in GenToken(12), health \in Health :
          UploadBlob(t, fallback, CHUNK_MAX_SIZE + 1, health)
  \/ /\ last.kind = "blob" /\ nUploads = 1
     /\ \E fallback \in GenToken(12), health \in Health :
          UploadBlob(last.token, fallback, CHUNK_MAX_SIZE + 1, health)
  \/ /\ last.kind = "none"
     /\ \E token \in GenToken(10), name \in 1..2, health \in Health :
          UpsertWithRetry(token, name, health)
  \/ /\ last.kind = "none"
     /\ \E token \in GenToken(10), health \in Health :
          ChunkWrite(token, CHUNK_MAX_SIZE + 1, health)

SpecSchema == Init /\ [][NextSchema]_vars

\* Uploads to pools that may refuse the chunks as too large.
NextReject ==
  \E token \in GenToken(10), n \in UploadSizes, errors \in Errors, failM \in AllOrNone :
    UploadOn(token, n, errors, failM)

SpecReject == Init /\ [][NextReject]_vars

\* Objects are written one after the other, by the handler of part_001 or
\* streamed to the Busboy variant, under tokens that may meet, while pools
\* and inserts fail or not, and the passes replay what was staged.
NextSeq ==
  \/ /\ stream.pc # "open"
     /\ \E token \in GenToken(10), fail \in AllOrNone :
          Upload(token, MAX_FILE_SIZE, fail, fail)
  \/ \E token \in GenToken(10) : StreamUpload(token, MAX_FILE_SIZE)
  \/ \E len \in 1..MAX_FILE_SIZE, failAt \in 0..MaxPieces : StreamData(len, failAt)
  \/ \E failAt \in 0..1 : StreamEnd(failAt, FALSE)
  \/ StreamEndAfterAbort(0, FALSE, FALSE)
  \/ \E c \in Chains : PendingRetryLoop(c)
  \/ \E c \in Chains, fail \in AllOrNone : FlushPending(c, fail, fail)

SpecSeq == Init /\ [][NextSeq]_vars

\* Uploads that find no pool and are staged, one of which may die between
\* the two files of its pair, and the passes over the pending directory.
NextCrash ==
  \/ \E token \in GenToken(10), fail \in AllOrNone :
       Upload(token, CHUNK_MAX_SIZE + 1, fail, fail)
  \/ \E token \in GenToken(10) : UploadCrash(token, CHUNK_MAX_SIZE + 1)
  \/ \E c \in Chains : PendingRetryLoop(c)
  \/ \E c \in Chains, fail \in AllOrNone : FlushPending(c, fail, fail)

SpecCrash == Init /\ [][NextCrash]_vars

\* Uploads that find a pool or none, the passes over the pending directory,
\* which may fail for a pair or throw, and reads.
NextLoop ==
  \/ \E token \in GenToken(10), fail \in AllOrNone :
       Upload(token, CHUNK_MAX_SIZE + 1, fail, fail)
  \/ \E c \in Chains : PendingRetryLoop(c)
  \/ \E c \in Chains : PendingRetryLoopThrows(c)
  \/ \E c \in Chains, fail \in AllOrNone : FlushPending(c, fail, fail)
  \/ /\ last.kind # "get"
     /\ \E token \in GenToken(10) : Get(token, NoHeader, {})

SpecLoop == Init /\ [][NextLoop]_vars

\* The process starts on pools and an upload.json in any state, as either
\* variant, while some pools may not answer; then the token is read.
NextStartup ==
  \/ \E fail \in SUBSET Backends : Startup("chunks", fail)
  \/ \E fail \in SUBSET Backends : Startup("blob", fail)
  \/ last.kind = "startup" /\ Get(LegacyToken, NoHeader, {})

SpecStartup == InitStartup /\ [][NextStartup]_vars

\* Chunk writes of part_001, under tokens that may meet, in which any
\* insert of any pool may fail.
NextTx ==
  \E token \in GenToken(10), failAt \in [Backends -> 0..MaxPieces] :
    ChunkWriteTx(token, MAX_FILE_SIZE, failAt)

SpecTx == Init /\ [][NextTx]_vars

\* Objects are streamed to the Busboy variant while inserts fail or not, and
\* the passes replay the pairs.  pendingRetryLoop re-arms its timer in its
\* finally block, so every pair is taken up again and again: an attempt on
\* a healthy pool that can change anything is eventually made.
NextReplay ==
  \/ \E token \in GenToken(10) : StreamUpload(token, MAX_FILE_SIZE)
  \/ \E len \in {CHUNK_MAX_SIZE, MAX_FILE_SIZE}, failAt \in 0..2 : StreamData(len, failAt)
  \/ \E failAt \in 0..1 : StreamEnd(failAt, FALSE)
  \/ \E failAt \in 0..1, thrown \in BOOLEAN : StreamEndAfterAbort(failAt, FALSE, thrown)
  \/ \E fn \in {f.fn : f \in pendingBin}, failAt \in 0..2, failM \in BOOLEAN :
       FlushPendingOne(fn, failAt, failM)

HealthyAttempt == \E fn \in {f.fn : f \in pendingBin} : FlushPendingOne(fn, 0, FALSE)

SpecReplay == Init /\ [][NextReplay]_vars /\ WF_vars(HealthyAttempt)

\* One request to the Busboy variant and the callbacks of its stream, in
\* every order the stream can call them.
NextStream ==
  \/ \E token \in GenToken(10), n \in {CHUNK_MAX_SIZE, MAX_FILE_SIZE, MAX_FILE_SIZE + 1} :
       StreamUpload(token, n)
  \/ \E len \in 1..MAX_FILE_SIZE, failAt \in 0..2 : StreamData(len, failAt)
  \/ \E failAt \in 0..2, failM \in BOOLEAN : StreamEnd(failAt, failM)
  \/ \E failAt \in 0..MaxPieces, failM \in BOOLEAN, thrown \in BOOLEAN :
       StreamEndAfterAbort(failAt, failM, thrown)
  \/ StreamError
  \/ \E reported \in BOOLEAN : StreamDrop(reported)
  \/ \E token \in GenToken(10) : StreamNoFile(token)

SpecStream == Init /\ [][NextStream]_vars

\* part_001: objects are staged while no pool takes them, the two chains
\* replay them, and reads of staged objects are suspended between finding
\* the file and opening it.
NextSuspend ==
  \/ \E token \in GenToken(10), fail \in AllOrNone :
       Upload(token, CHUNK_MAX_SIZE + 1, fail, fail)
  \/ \E c \in Chains : PendingRetryLoop(c)
  \/ \E c \in Chains, fail \in AllOrNone : FlushPending(c, fail, fail)
  \/ \E token \in GenToken(10), h \in {NoHeader, [present |-> TRUE, start |-> 1, end |-> Empty]} :
       GetLocate(token, h, {})
  \/ GetOpen

SpecSuspend == Init /\ [][NextSuspend]_vars

\* ------------------------------------------------- properties: reads, tokens

\* The request just answered was a read made while every pool answered.
HealthyGet == last.kind = "get" /\ last.fail = {}

\* C1: every upload answers success; a later read of its token with no Range
\* header, made while every pool answers, returns status 200, the bytes that
\* were submitted and their count as the total size.
C1_ReadReturnsPayload ==
  (HealthyGet /\ ~last.header.present) =>
    \A u \in issued :
      u.token = last.token =>
        /\ last.res.status = 200
        /\ last.res.body = u.buf
        /\ last.res.length = Len(u.buf)

\* The range a request names with both of its ends, on the object the read
\* served.
ClosedRange ==
  /\ last.kind = "get"
  /\ last.tier # "none"
  /\ last.header.present
  /\ last.header.start # Empty
  /\ last.header.end # Empty

\* C2: a read with a range start..end, 0 <= start <= end < total size,
\* answers 206 with exactly end-start+1 bytes, the bytes start..end of the
\* object, and the object's full size, in the blob tier, the chunk tier and
\* the pending tier; the object is the payload submitted under the token.
C2_RangeIsSlice ==
  (/\ ClosedRange
   /\ last.header.start <= last.header.end
   /\ last.header.end < Len(last.stored)) =>
    /\ last.res.status = 206
    /\ last.res.body = SubSeq(last.stored, last.header.start + 1, last.header.end + 1)
    /\ Len(last.res.body) = last.header.end - last.header.start + 1
    /\ last.res.length = last.header.end - last.header.start + 1
    /\ last.res.start = last.header.start
    /\ last.res.end = last.header.end
    /\ last.res.total = Len(last.stored)
    /\ \A u \in issued : u.token = last.token => last.stored = u.buf

\* A range served from chunk rows that starts in the first chunk and ends in
\* a later one.
C2_CrossesChunks ==
  /\ ClosedRange
  /\ last.tier = "chunks"
  /\ last.res.status = 206
  /\ 0 < last.header.start
  /\ last.header.start < CHUNK_MAX_SIZE
  /\ last.header.end >= CHUNK_MAX_SIZE
  /\ last.res.body = SubSeq(last.stored, last.header.start + 1, last.header.end + 1)

\* C3: a range request whose start, or whose end, is at or past the total
\* size of the object is answered 416 with the total size; 'bytes=S-' with
\* S >= total size included.
C3_OutOfBoundsIs416 ==
  (/\ last.kind = "get"
   /\ last.tier # "none"
   /\ last.header.present
   /\ last.header.start # Empty
   /\ \/ last.header.start >= Len(last.stored)
      \/ last.header.end # Empty /\ last.header.end >= Len(last.stored)) =>
    /\ last.res.status = 416
    /\ last.res.total = Len(last.stored)

\* C4: the token an upload is given is not a key of the cache at the moment
\* it is allocated.
C4_TokenNotInCache ==
  (last.kind = "upload" /\ last.status = 200) => ~last.inCache

\* C6: an upload whose chunk write fails in every pool answers success and
\* leaves a pending pair holding the payload; after a pass has attempted a
\* pending pair while some pool answered, the object's chunks are in a pool
\* that answered and the two files of the pair are gone.
C6_FlushMovesObject ==
  /\ (last.kind = "upload" /\ last.note = "saved-locally-pending-db") =>
       /\ last.status = 200
       /\ \E j \in PendingOf(last.token) : BinOf(j.fn) = last.buf
  /\ (last.kind = "flush" /\ last.fail # Backends) =>
       /\ \E b \in Backends \ last.fail :
            WriteAll(OrderBySeq({r \in fileChunks[b] : r.token = last.token}), 1)
              = last.buf
       /\ ~\E f \in pendingBin : f.fn = last.fn
       /\ ~\E j \in pendingJson : j.fn = last.fn

\* C9: a read, made while every pool answers, that finds no bytes in any tier
\* answers 404 when no record of the token exists and 410 when one does.
C9_GoneOrNotFound ==
  (HealthyGet /\ last.tier = "none") =>
    last.res.status = IF last.known THEN 410 ELSE 404

\* C10: at no time are two executions of pendingRetryLoop in progress.
C10_PassesNeverOverlap ==
  Cardinality({c \in Chains : loops[c].pc = "await"}) <= 1

\* ------------------------------------------------- properties: the upsert

\* The last two calls of the upsert had the same token and the same record.
SameCallTwice ==
  /\ last.kind = "upsert"
  /\ last.prev.token = last.token
  /\ last.prev.entry = last.entry

\* The token of the last call has one logical record, with the record of
\* that call: no pool holds two rows of the token, and the merge of the
\* pools' rows gives the record.
OneLogicalRecord ==
  /\ \A b \in Backends : Cardinality({r \in uploads[b] : r.token = last.token}) <= 1
  /\ last.token \in DOMAIN LoadedMappings(uploads)
  /\ [LoadedMappings(uploads)[last.token] EXCEPT !.createdAt = last.entry.createdAt]
       = last.entry

\* C5 as written: after two calls with the same token and record, whatever
\* the pools did with them, the token has one logical record with the data
\* of the later call.
C5_UpsertIdempotentAlways == SameCallTwice => OneLogicalRecord

\* C5: after two calls with the same token and record of which a pool took
\* at least one, the token has one logical record with the data of the later
\* call, whatever rows earlier calls left in the pools.
C5_UpsertIdempotent ==
  (SameCallTwice /\ (last.ok \/ last.prev.ok)) => OneLogicalRecord

\* The two calls went to different pools, and another pool still holds the
\* row of an earlier call with another record.
C5_TwoPoolsStaleRow ==
  /\ SameCallTwice
  /\ last.ok
  /\ last.prev.ok
  /\ \E b, c \in Backends :
       /\ b # c
       /\ \E r \in uploads[b] : r.token = last.token /\ r.data = last.entry
       /\ \E r \in uploads[c] : r.token = last.token /\ r.data # last.entry

\* ------------------------------------------------- properties: writes

CeilDiv(n, c) == (n + c - 1) \div c

\* rows are the chunks of buf under the token: ceil(N/C) of them, numbered
\* from 0 without a gap, none longer than C, all but the last of C bytes, and
\* buf when put end to end in the order of their numbers.
ChunkedExactly(rows, token, buf) ==
  LET count == CeilDiv(Len(buf), CHUNK_MAX_SIZE)
  IN /\ Cardinality(rows) = count
     /\ {r.seq : r \in rows} = 0..(count - 1)
     /\ \A r \in rows :
          /\ r.token = token
          /\ Len(r.chunk) <= CHUNK_MAX_SIZE
          /\ r.seq < count - 1 => Len(r.chunk) = CHUNK_MAX_SIZE
     /\ WriteAll(OrderBySeq(rows), 1) = buf

\* An upload, of either variant, of an object within the size limit that
\* was answered as stored in the chunk table.
StoredAsChunks ==
  /\ last.kind \in {"upload", "stream"}
  /\ last.status = 200
  /\ last.note = ""
  /\ last.size <= MAX_FILE_SIZE

\* C7: the rows a write of an object of N bytes adds to the chunk table are
\* exactly ceil(N/C) chunks numbered 0..ceil(N/C)-1, each of at most C bytes,
\* all but the last of exactly C bytes, whose concatenation in sequence
\* order is the object; for the one-transaction write of part_001 and for
\* the accumulator of the streaming variant, whatever the lengths of the
\* data events.
C7_ExactChunking ==
  StoredAsChunks => ChunkedExactly(last.wrote, last.token, last.buf)

\* A streamed object of more than one chunk whose last chunk is short.
C7_ShortLastChunk ==
  /\ StoredAsChunks
  /\ last.kind = "stream"
  /\ Cardinality(last.wrote) > 1
  /\ \E r \in last.wrote : Len(r.chunk) < CHUNK_MAX_SIZE
  /\ ChunkedExactly(last.wrote, last.token, last.buf)

\* C8: an upload of more than MAX_FILE_SIZE bytes is answered 413, and at no
\* moment of it is a chunk row written or a pending file made for its token.
C8_OversizeRejected ==
  /\ (last.kind \in {"upload", "stream"} /\ last.size > MAX_FILE_SIZE) =>
       /\ last.status = 413
       /\ last.wrote = {}
       /\ ~\E j \in pendingJson : j.token = last.token
  /\ (stream.pc # "idle" /\ Len(stream.sent) > MAX_FILE_SIZE) => stream.wrote = {}

\* ------------------------------------------------- properties: the listing

\* Every metadata record of every pool, one per token (the newest copy),
\* newest first.
AllRecords ==
  LET rows == UNION {{[token |-> r.token, createdAt |-> r.created_at, source |-> b] :
                      r \in uploads[b]} : b \in Backends}
      newest == {x \in rows : \A y \in rows : y.token = x.token => y.createdAt <= x.createdAt}
  IN SortNewestFirst(newest)

\* C11: GET /uploads with limit L and offset K, every pool answering, returns
\* the entries K..K+L-1 of the list of all records, deduplicated by token and
\* newest first, and no token twice.
C11_PageOfAllRecords ==
  (last.kind = "list" /\ last.fail = {}) =>
    /\ last.items = SliceSeq(AllRecords, last.offset, last.offset + last.limit)
    /\ \A i, j \in 1..Len(last.items) :
         last.items[i].token = last.items[j].token => i = j

\* ------------------------------------------------- properties: the pools

\* The chunk write of the buffer under the token would hit a row of pool b.
KeyTaken(b, token, buf) ==
  \E r \in fileChunks[b] :
    r.token = token /\ r.seq < CeilDiv(Len(buf), CHUNK_MAX_SIZE)

\* The first pool, in the configured order, of a set of pools; 0 when the
\* set is empty.
FirstOf(pools) ==
  IF pools = {} THEN 0 ELSE CHOOSE b \in pools : \A c \in pools : b <= c

\* C12: the chunk write, the metadata upsert, the blob read and the chunk
\* read go through the pools in the configured order and stop at the first
\* pool that takes the write, or that has rows of the token: the accepting
\* pool is the first that neither fails nor refuses, and no other pool is
\* written.
C12_FirstPoolInOrder ==
  [][/\ last'.kind = "upload" =>
          /\ last'.pool = FirstOf({b \in Backends \ last'.fail :
                                     ~KeyTaken(b, last'.token, last'.buf)})
          /\ \A b \in Backends \ {last'.pool} : fileChunks'[b] = fileChunks[b]
          /\ last'.pool # 0 =>
               /\ last'.metaPool = FirstOf(Backends \ last'.metaFail)
               /\ \A b \in Backends \ {last'.metaPool} : uploads'[b] = uploads[b]
          /\ last'.pool = 0 => uploads' = uploads
     /\ (last'.kind = "get" /\ last'.tier = "blob") =>
          last'.pool = FirstOf({b \in Backends \ last'.fail :
                                  \E r \in uploads[b] :
                                    r.token = last'.token /\ r.file # NoFile})
     /\ (last'.kind = "get" /\ last'.tier = "chunks") =>
          /\ last'.pool = FirstOf({b \in Backends \ last'.fail :
                                     \E r \in fileChunks[b] : r.token = last'.token})
          /\ ~\E b \in Backends \ last'.fail :
                \E r \in uploads[b] : r.token = last'.token /\ r.file # NoFile
    ]_vars

\* An upload was taken by a later pool although the first one answered: the
\* first pool already held chunk rows of the token.
C12_LaterPoolAccepts ==
  /\ last.kind = "upload"
  /\ last.pool > 1
  /\ 1 \notin last.fail
  /\ last.metaPool = 1

\* C13: the chunk write of an upload fails, once, only when every pool has
\* failed to connect or has refused the rows, and the upload then stages one
\* pending pair; when a pool takes the rows the write succeeds with all the
\* chunks of the object in that pool, however many earlier pools failed, and
\* the metadata upsert that follows succeeds when a pool answers.
C13_FailsOnlyWhenAllFail ==
  [][last'.kind = "upload" /\ last'.status = 200 =>
       LET allFailed == \A b \in Backends :
                          b \in last'.fail \/ KeyTaken(b, last'.token, last'.buf)
       IN /\ (last'.pool = 0) <=> allFailed
          /\ (last'.note = "saved-locally-pending-db") <=> allFailed
          /\ allFailed =>
               /\ fileChunks' = fileChunks
               /\ Cardinality(pendingBin' \ pendingBin) = 1
               /\ Cardinality(pendingJson' \ pendingJson) = 1
          /\ ~allFailed =>
               /\ ChunkedExactly(last'.wrote, last'.token, last'.buf)
               /\ last'.wrote \subseteq fileChunks'[last'.pool]
               /\ pendingBin' = pendingBin
               /\ (last'.metaPool # 0) <=> (\E b \in Backends : b \notin last'.metaFail)
    ]_vars

\* An upload taken by the last pool after every pool before it had failed.
C13_LastPoolAccepts ==
  /\ last.kind = "upload"
  /\ last.pool = NumBackends
  /\ last.fail = Backends \ {NumBackends}
  /\ last.note = ""
  /\ last.wrote # {}

\* ------------------------------------------------- properties: the schema

\* The number of steps of a log that run op in pool b.
CountOps(log, b, op) ==
  Cardinality({i \in 1..Len(log) : log[i].pool = b /\ log[i].op = op})

\* C14: a write that a pool refuses for a missing relation or column repairs
\* the schema of that pool and tries that pool once more, and goes to the
\* next pool only when the repair or the second try fails: the pool that
\* takes the write is the first one that runs the query at once or after
\* its repair, and no pool sees more than two tries and one repair.
C14_RepairAndRetryOnce ==
  /\ (last.kind \in {"blob", "chunkwrite"}
      \/ (last.kind = "upsert" /\ "health" \in DOMAIN last)) =>
       last.pool = FirstOf({b \in Backends : last.health[b] \in {"ok", "noschema"}})
  /\ last.kind = "blob" =>
       \A b \in Backends :
         /\ CountOps(last.log, b, "query") <= 2
         /\ CountOps(last.log, b, "migrate") <= 1
         /\ CountOps(last.log, b, "migrate") = 1 <=>
              last.health[b] \in {"noschema", "broken", "retryfails"}
                /\ (last.pool = 0 \/ b <= last.pool)

\* ------------------------------------------- properties: rejected writes

\* The last upload got no pool to take its chunks and a pool refused them as
\* too large.
RejectedTooLarge ==
  /\ last.kind = "upload" /\ last.token # NoToken
  /\ last.pool = 0
  /\ \E b \in Backends : last.errors[b] = "too_large"

\* C15: an upload whose write the pools refuse as too large is not answered
\* with success and leaves no pending pair written for its token.
C15_TooLargeFailsFast ==
  RejectedTooLarge =>
    /\ last.status # 200
    /\ \A f \in pendingBin \cup pendingJson :
         f.fn # PendingName(last.token, now - 1)

\* ------------------------------------------ properties: streaming uploads

\* The 'data' handler of the last event gave up on the pool and answered.
FailedMidStream ==
  /\ last.kind = "stream"
  /\ last.note = "Saved to disk pending due to DB error"
  /\ last.size <= MAX_FILE_SIZE

\* The bytes the upload has in chunks: the 'data' handler inserts full
\* pieces only.
PersistedBytes == CHUNK_MAX_SIZE * Cardinality(last.wrote)

\* C16: when an insert fails in a 'data' event, the pending pair of the
\* token holds the bytes of the object that are in no chunk, in order: what
\* was buffered and not inserted, then all that the stream still delivers;
\* the cache entry is tagged pending_disk and the answer is 200.
C16_PendingIsTheRest ==
  FailedMidStream =>
    /\ last.status = 200
    /\ mappings[last.token].storage = PendingDisk
    /\ \E f \in pendingBin :
         /\ f.fn = PendingName(last.token, now - 1)
         /\ f.buf = Slice(last.buf, PersistedBytes, Len(last.buf))

\* The cache or the pool describes token as stored in chunks.
Completed(token, maps, ups) ==
  \/ token \in DOMAIN maps /\ maps[token].storage = Chunks
  \/ \E r \in ups[ThePool] : r.token = token /\ r.data.storage = Chunks

\* The bytes in a set of chunk rows.
BytesIn(rows) == SumLens(OrderBySeq(rows), 1)

C17_CompletedAfterEnd ==
  /\ last.kind = "stream" /\ last.note = "" /\ last.status = 200
  /\ Cardinality(last.wrote) > 1
  /\ BytesIn(last.wrote) % CHUNK_MAX_SIZE # 0
  /\ mappings[last.token].storage = Chunks
  /\ \E r \in uploads[ThePool] : r.token = last.token /\ r.data.storage = Chunks

\* ------------------------------------------- properties: chunk sequences

\* The sequence numbers of the rows of token in pool b.
SeqsOf(b, token) == {r.seq : r \in {x \in fileChunks[b] : x.token = token}}

\* C18: the chunks of a token are inserted in increasing order of seq, one
\* insert after the other, so in every state the sequence numbers of a token
\* in a pool are 0..k-1 for some k, and no (token, seq) has two rows.  The
\* rows an event leaves when its insert number k fails are the rows the loop
\* has after k - 1 inserts, so the states between two inserts are among the
\* states checked.
C18_GapFreePrefix ==
  \A b \in Backends, token \in GenToken(10) :
    /\ SeqsOf(b, token) = 0..(Cardinality(SeqsOf(b, token)) - 1)
    /\ Cardinality({x \in fileChunks[b] : x.token = token})
         = Cardinality(SeqsOf(b, token))

\* A stream stopped at a failed insert after its first chunks were in the
\* pool, which holds a proper prefix of the object's chunks.
C18_StoppedInTheMiddle ==
  /\ last.kind = "stream"
  /\ last.note = "Saved to disk pending due to DB error"
  /\ Cardinality(SeqsOf(ThePool, last.token)) > 1
  /\ CHUNK_MAX_SIZE * Cardinality(SeqsOf(ThePool, last.token)) < Len(last.buf)

\* ------------------------------------------- properties: reconciliation

\* C19: a file of a staged pair leaves the pending directory only in a
\* replay that has committed the pair's chunks to a pool and upserted its
\* metadata record; a replay that fails at either step leaves both files.
C19_DiscardOnlyAfterReplay ==
  [][(\E f \in pendingBin \cup pendingJson : f \notin (pendingBin \cup pendingJson)') =>
       /\ last'.kind = "flush"
       /\ last'.pool # 0
       /\ last'.metaOk]_vars

\* The names in the pending directory with one file of their pair only.
PartialPairs(bins, jsons) ==
  {f.fn : f \in {x \in bins : ~\E j \in jsons : j.fn = x.fn}}
  \cup {j.fn : j \in {x \in jsons : ~\E f \in bins : f.fn = x.fn}}

\* The names in the pending directory with both files.
FullPairs(bins, jsons) == {f.fn : f \in {x \in bins : \E j \in jsons : j.fn = x.fn}}

\* C20: no step but a crash leaves one file of a pair without the other;
\* a pass never takes up a pair of which one file is missing, writes
\* nothing to a pool for it and removes no file of it, and goes on to a
\* pair that has both files.
C20_PartialPairSkipped ==
  [][/\ last'.kind # "crash" =>
          PartialPairs(pendingBin, pendingJson)' \subseteq PartialPairs(pendingBin, pendingJson)
     /\ \A f \in pendingBin \cup pendingJson :
          f.fn \in PartialPairs(pendingBin, pendingJson) =>
            f \in (pendingBin \cup pendingJson)'
     /\ \A c \in Chains :
          (loops'[c] # loops[c] /\ loops'[c].pc = "await") =>
            loops'[c].cur.fn \in FullPairs(pendingBin, pendingJson)'
     /\ \A c \in Chains :
          (last'.kind = "pass" /\ last'.chain = c) =>
            /\ fileChunks' = fileChunks /\ uploads' = uploads
            /\ FullPairs(pendingBin, pendingJson) # {} => loops'[c].pc = "await"
            /\ FullPairs(pendingBin, pendingJson) = {} => loops'[c].pc = "timer"]_vars

\* A pass met a pair with one file only, left it, and took up a pair that
\* has both.
C20_SkippedAndWentOn ==
  /\ last.kind = "pass"
  /\ PartialPairs(pendingBin, pendingJson) # {}
  /\ loops[last.chain].pc = "await"
  /\ \E fn \in PartialPairs(pendingBin, pendingJson) : fn \notin loops[last.chain].files

\* ---------------------------------------------- properties: the timer

\* The last step ended a pass of chain last.chain: its timer is armed.
PassEnded ==
  /\ last.kind \in {"pass", "passthrew", "flush"}
  /\ loops[last.chain].pc = "timer"

\* C21: when a pass has ended, whether it flushed its pairs, failed for some
\* or threw, one next pass is scheduled and no other is scheduled or in
\* progress; and a read made while every pool answers is not answered with
\* an error of the server.
C21_OneNextPass ==
  /\ PassEnded =>
       /\ Cardinality({c \in Chains : loops[c].pc = "timer"}) = 1
       /\ \A c \in Chains : loops[c].pc # "await"
  /\ last.kind = "get" => last.res.status # 500

\* --------------------------------------------- properties: the startup

\* The rows of token in the pools that answered the startup's SELECT.
RowsSeen(token) ==
  UNION {{r \in last.tables[b] : r.token = token} : b \in Backends \ last.fail}

\* The cache entry a row gives.
EntryOf(r) == [r.data EXCEPT !.createdAt = r.created_at]

\* C22: after the startup the cache holds, for every token that the pools
\* which answered have rows of, the record of a row whose created_at is the
\* latest among them.
C22_LatestRecordInCache ==
  last.kind = "startup" =>
    \A token \in Tokens :
      RowsSeen(token) # {} =>
        /\ token \in DOMAIN mappings
        /\ \E r \in RowsSeen(token) :
             /\ \A q \in RowsSeen(token) : q.created_at <= r.created_at
             /\ mappings[token] = EntryOf(r)

\* C23: after the startup the cache holds, for every token that upload.json
\* and a pool which answered both have, the record of a row of a pool.
C23_BackendOverLocal ==
  last.kind = "startup" =>
    \A token \in DOMAIN last.local :
      RowsSeen(token) # {} =>
        \E r \in RowsSeen(token) : mappings[token] = EntryOf(r)

\* ---------------------------------------- properties: the metadata record

\* The last upload had its chunks taken by a pool.
Ingested ==
  /\ last.kind = "upload" /\ last.status = 200
  /\ last.pool # 0

\* C24: after an upload whose chunks a pool took, the storage tag of the
\* token's record names that pool, in the cache and in the row the upload
\* wrote to the uploads table.
C24_TagNamesAcceptingPool ==
  Ingested =>
    /\ mappings[last.token].storage = StoredOn(last.pool)
    /\ last.metaPool # 0 =>
         \A r \in uploads[last.metaPool] :
           r.token = last.token => r.data.storage = StoredOn(last.pool)

\* C25: an upload that is answered with success has left a record of its
\* token in the uploads table of a pool, or in the descriptor of a pending
\* pair, and an entry in the cache.
C25_SuccessHasRecord ==
  (last.kind = "upload" /\ last.status = 200) =>
    /\ last.token \in DOMAIN mappings
    /\ \/ \E b \in Backends : \E r \in uploads[b] : r.token = last.token
       \/ \E j \in pendingJson : j.token = last.token

\* ------------------------------------------------ properties: the tiers

\* A pool holds a file_data blob of the token.
HasBlob(token) ==
  \E b \in Backends : \E r \in uploads[b] : r.token = token /\ r.file # NoFile

\* A pool holds chunk rows of the token.
HasChunks(token) ==
  \E b \in Backends : \E r \in fileChunks[b] : r.token = token

\* C26: a read made while every pool answers is served from the blob when a
\* pool has one, else from the chunks when a pool has rows, else from a
\* pending pair, else answered 404: of the tiers that hold the token the
\* earliest serves.
C26_EarliestTierServes ==
  HealthyGet =>
    last.tier = IF HasBlob(last.token) THEN "blob"
                ELSE IF HasChunks(last.token) THEN "chunks"
                ELSE IF PendingOf(last.token) # {} THEN "pending"
                ELSE "none"

\* A token with chunks in a pool and a pending pair was read from the
\* chunks.
C26_ChunksBeforePending ==
  /\ HealthyGet
  /\ HasChunks(last.token) /\ PendingOf(last.token) # {}
  /\ last.tier = "chunks"
  /\ last.res.status = 200

\* ------------------------------------------------- properties: the frame

\* C27: a read, whatever it answers, changes no row of the uploads and
\* file_chunks tables of any pool, no file of the pending directory and no
\* entry of the cache.
C27_ReadWritesNothing ==
  [][last'.kind = "get" =>
       /\ uploads' = uploads /\ fileChunks' = fileChunks
       /\ pendingBin' = pendingBin /\ pendingJson' = pendingJson
       /\ mappings' = mappings]_vars

\* A read of a stored token was refused with 416 and the token is still
\* in the cache and in its tier.
C27_RefusedAndStillThere ==
  /\ last.kind = "get" /\ last.res.status = 416
  /\ last.token \in DOMAIN mappings
  /\ HasChunks(last.token) \/ PendingOf(last.token) # {}

\* ---------------------------------------- properties: open-ended ranges

\* The last read found the object and had a Range header.
RangedGet ==
  /\ last.kind = "get"
  /\ last.tier # "none"
  /\ last.header.present

\* The answer is 206 with the bytes from..to of the object.
Serves(from, to) ==
  /\ last.res.status = 206
  /\ last.res.body = SubSeq(last.stored, from + 1, to + 1)
  /\ last.res.start = from
  /\ last.res.end = to
  /\ last.res.total = Len(last.stored)

\* C28: on an object of size S, 'bytes=A-' with A < S is answered with the
\* bytes A..S-1, and 'bytes=-N' with 0 < N <= S with the last N bytes,
\* S-N..S-1.
C28_OpenEndedRanges ==
  LET S == Len(last.stored)
  IN /\ (/\ RangedGet
         /\ last.header.start # Empty /\ last.header.end = Empty
         /\ last.header.start < S) =>
          Serves(last.header.start, S - 1)
     /\ (/\ RangedGet
         /\ last.header.start = Empty /\ last.header.end # Empty
         /\ 0 < last.header.end /\ last.header.end <= S) =>
          Serves(S - last.header.end, S - 1)

\* ------------------------------------------ properties: chunks stay

\* C29: a row of file_chunks, once written, stays as it is: every step
\* keeps every row of every pool, and no pool has two rows of one (token,
\* seq), so the payload of a key is the payload of its first write, after
\* any later upload, failover or pass.
C29_ChunksImmutable ==
  /\ [][\A b \in Backends : fileChunks[b] \subseteq fileChunks'[b]]_vars
  /\ [](\A b \in Backends : \A r, q \in fileChunks[b] :
          (r.token = q.token /\ r.seq = q.seq) => r = q)

\* An upload got the token of an object that pool 1 holds, with other
\* bytes, while pool 1 answered: its chunks went elsewhere and the rows of
\* pool 1 are those of the first object.
C29_SecondWriteTurnedAway ==
  /\ last.kind = "upload" /\ last.status = 200
  /\ 1 \notin last.fail
  /\ last.pool # 1
  /\ \E r \in fileChunks[1] :
       /\ r.token = last.token /\ r.seq = 0
       /\ r.chunk # Slice(last.buf, 0, CHUNK_MAX_SIZE)

\* ------------------------------------------ properties: distinct tokens

\* C30: the tokens of the uploads that were answered with success are
\* pairwise distinct: no token was given to two objects.
C30_TokensDistinct ==
  \A u, v \in issued : u.token = v.token => u = v

\* ------------------------------------------ properties: the transaction

\* The pools the last chunk write tried and left with an error.
PoolsLeft ==
  {b \in Backends : last.pool = 0 \/ b < last.pool}

\* C31: the chunk write of part_001 leaves in every pool it gave up on the
\* rows the pool had before, none of this attempt's; the pool that takes
\* the write gets all the chunks of the buffer.
C31_AllOrNothingPerPool ==
  last.kind = "txwrite" =>
    /\ \A b \in PoolsLeft : fileChunks[b] = last.before[b]
    /\ last.pool # 0 =>
         Cardinality(fileChunks[last.pool] \ last.before[last.pool])
           = CeilDiv(Len(last.buf), CHUNK_MAX_SIZE)

\* The first pool failed at an insert after its first and the second pool
\* took the write.
C31_FailedPartWay ==
  /\ last.kind = "txwrite"
  /\ last.failAt[1] > 1
  /\ last.failAt[1] <= CeilDiv(Len(last.buf), CHUNK_MAX_SIZE)
  /\ last.pool = 2

\* ------------------------------------------------ properties: the replay

\* C32: in the Busboy variant, once the pool takes every query, every pair
\* in the pending directory is in the end replayed into the pool and
\* removed, also a pair of which an earlier attempt had inserted some
\* chunks before it failed.
C32_EveryPairReplayed ==
  <>[](FullPairs(pendingBin, pendingJson) = {})

\* ------------------------------------------ properties: one answer

\* C33: every upload request to the Busboy variant is answered once: no
\* handler of its stream calls res.json after another one has; after the
\* data handler drained the stream and answered, the end handler does not
\* finalize and answer again.
C33_AnsweredOnce ==
  last.kind \in {"stream", "again"} => last.answers = 1

\* ------------------------------------ properties: never in neither place

\* The bytes buf of token are the whole chunk sequence of token in some
\* pool, or the pair fn holds them in the pending directory; an object of
\* no bytes has no chunk and is nowhere to be missed.
InPoolOrPending(token, fn, buf) ==
  \/ buf = <<>>
  \/ \E b \in Backends :
       ChunkedExactly({r \in fileChunks[b] : r.token = token}, token, buf)
  \/ /\ fn \in FullPairs(pendingBin, pendingJson)
     /\ BinOf(fn) = buf

C35_SuspendedReadDelivers ==
  last.kind = "read" => last.res = ServePending(last.stored, last.header)

\* ------------------------------------ properties: one pool per token

\* C36: whatever uploads, failures of pools and passes there were, the
\* chunk rows of a token are in at most one pool.
C36_OnePoolPerToken ==
  \A token \in GenToken(10) :
    Cardinality({b \in Backends : \E r \in fileChunks[b] : r.token = token}) <= 1

\* ------------------------------------ properties: the creation time

\* C37: the creation time recorded for a token stays what it was: no step,
\* be it a metadata upsert of a record that is already there or the startup
\* block (load, merge, re-persist), changes the created_at of a row of the
\* token or the createdAt of its record.
C37_CreationTimeKept ==
  [][\A b \in Backends : \A r \in uploads[b] : \A q \in uploads'[b] :
       q.token = r.token =>
         /\ q.created_at = r.created_at
         /\ q.data.createdAt = r.data.createdAt]_vars

\* ------------------------------------ properties: a request without a file

\* C38: a POST /upload answered 400 because it had no file leaves the cache
\* as it was before the request: the token made for the request has no
\* entry.
C38_NoFileLeavesCache ==
  (last.kind = "nofile" /\ last.status = 400) => mappings = last.before

====
